---- MODULE Spec2Model ----
(***************************************************************************)
(* Model of the signal-detection and behavioural-trend engine of the      *)
(* Bokdori assistant: the emotion day logs, EmotionTrendMonitor,           *)
(* AlertManager and PhishingDetector.                                      *)
(*                                                                         *)
(* Time is counted in ticks, TicksPerDay ticks to a calendar day; a        *)
(* timestamp is the tick at which datetime.now() was read, and `us` (the   *)
(* sub-tick part of a timestamp) orders records logged in the same tick.   *)
(* Ratios and scores are kept exact as integers: percentages for the       *)
(* emotion ratios, hundredths for the phishing scores.                     *)
(***************************************************************************)
EXTENDS Integers, Sequences, FiniteSets, TLC

VARIABLES
    now,            \* the clock, in ticks
    emotionFiles,   \* logs/emotions/<date>_emotion_log.json : date -> list of records
    alertFiles,     \* logs/alerts/<date>_alerts.json : date -> [ok, alerts]
    pc,             \* position inside check_all_alerts ("idle" outside it)
    alerts,         \* the list check_all_alerts is building
    lastCall,       \* the last AlertManager call that returned
    returned,       \* the alerts that call returned (None is the empty list)
    pending,        \* the utterances still to come: <<tick, category>>, in time order
    risk,           \* the last detect_depression_risk call: its arguments and result
    threshold,      \* PhishingDetector.threshold, in hundredths
    verdict,        \* the last PhishingDetector.detect call: its input and result
    configFiles,    \* config/emotion_patterns.json and config/phishing_patterns.json
    lexicons,       \* self.patterns of the EmotionAnalyzer and of the PhishingDetector
    analysis,       \* the last EmotionAnalyzer or pattern-scorer call: its input and result
    dayFile,        \* the text of today's day file, as it is on disk
    threads,        \* the calls running against dayFile: their position and locals
    chatHistory,    \* BokdoriAI.conversation_history
    report          \* the last generate_weekly_report call: its result

vars == <<now, emotionFiles, alertFiles, pc, alerts, lastCall, returned, pending,
          risk, threshold, verdict, configFiles, lexicons, analysis,
          dayFile, threads, chatHistory, report>>

----------------------------------------------------------------------------
(* Bounds of the model *)

TicksPerDay == 2

(* Program constants *)

DepressionWindowDays == 7
DepressionThresholdPct == 60
DepressionCooldownDays == 3
EmotionChangeWindowDays == 3
EmotionChangeCooldownDays == 1
AlertLookbackDays == 7
MajorityTenths == 7
DefaultThreshold == 70

\* the run starts with a week of logs and lasts one depression cooldown
StartDay == DepressionWindowDays
MaxDay == StartDay + DepressionCooldownDays
Dates == 0..MaxDay
StartTick == StartDay * TicksPerDay
MaxTick == MaxDay * TicksPerDay

CountedCategories == {"positive", "negative", "neutral"}

\* the parts of the state a specification does not use
Elsewhere ==
    /\ dayFile = <<>>
    /\ threads = <<>>
    /\ chatHistory = <<>>
    /\ report = <<>>

\* strftime('%Y-%m-%d') of a timestamp
DateOf(t) == t \div TicksPerDay

\* timedelta.days of (later - earlier)
DaysBetween(later, earlier) == (later - earlier) \div TicksPerDay

----------------------------------------------------------------------------
(* Sequences *)

\* variant: a selection that ignores the type
SelectAnyType(s, type) == s

SelectType(s, type) == SelectSeq(s, LAMBDA a : a.type = type)

\* the order of two ISO timestamps compared as strings
TsBefore(a, b) == a.ts < b.ts \/ (a.ts = b.ts /\ a.us < b.us)

InsertByTs(s, r) ==
    LET k == Cardinality({j \in 1..Len(s) : ~TsBefore(r, s[j])})
    IN  SubSeq(s, 1, k) \o <<r>> \o SubSeq(s, k + 1, Len(s))

\* list.sort(key=lambda x: x.get('timestamp', '')): stable, ascending
RECURSIVE SortByTimestamp(_)
SortByTimestamp(s) ==
    IF s = <<>> THEN <<>>
    ELSE InsertByTs(SortByTimestamp(SubSeq(s, 1, Len(s) - 1)), s[Len(s)])

----------------------------------------------------------------------------
(* EmotionTrendMonitor *)

RECURSIVE ConcatFiles(_, _, _)
ConcatFiles(files, lo, hi) ==
    IF lo > hi THEN <<>>
    ELSE (IF lo \in DOMAIN files THEN files[lo] ELSE <<>>)
         \o ConcatFiles(files, lo + 1, hi)

load_emotion_logs(files, t, days) ==
    SortByTimestamp(ConcatFiles(files, DateOf(t) - days, DateOf(t)))

\* daily_stats[date][category] += 1 raises KeyError for a category outside
\* the three counters; the record is then skipped and total is not raised
CountOf(logs, d, cat) ==
    Cardinality({i \in 1..Len(logs) :
        DateOf(logs[i].ts) = d /\ logs[i].cat = cat})

\* variant: total is raised for every record of the date
TotalOfEvery(logs, d) ==
    Cardinality({i \in 1..Len(logs) : DateOf(logs[i].ts) = d})

\* daily_stats[date_str]["total"] += 1 is reached by the records whose
\* category is one of the three counters
TotalOf(logs, d) ==
    Cardinality({i \in 1..Len(logs) :
        DateOf(logs[i].ts) = d /\ logs[i].cat \in CountedCategories})

calculate_daily_emotions(logs) ==
    [d \in {e \in Dates : TotalOf(logs, e) > 0} |->
        [positive |-> CountOf(logs, d, "positive"),
         negative |-> CountOf(logs, d, "negative"),
         neutral  |-> CountOf(logs, d, "neutral"),
         total    |-> TotalOf(logs, d)]]

\* sorted(daily_stats.keys())[-days:]
\* variant: the earliest `days` dates
FirstDates(dates, days) ==
    IF days = 0 THEN dates ELSE {d \in dates : Cardinality({e \in dates : e < d}) < days}

LastDates(dates, days) ==
    IF days = 0 THEN dates
    ELSE {d \in dates : Cardinality({e \in dates : e > d}) < days}

HighNegative(stats, d, thresholdPct) ==
    stats[d].negative * 100 >= thresholdPct * stats[d].total

\* variant: a majority of eight tenths
EnoughDaysOfEightTenths(high, days) == high * 10 >= days * 8

EnoughDays(high, days) == high * 10 >= days * MajorityTenths

detect_depression_risk(files, t, days, thresholdPct) ==
    LET stats == calculate_daily_emotions(load_emotion_logs(files, t, days))
        dates == LastDates(DOMAIN stats, days)
        high  == Cardinality({d \in dates : HighNegative(stats, d, thresholdPct)})
    IN  IF Cardinality(dates) < days THEN FALSE
        ELSE EnoughDays(high, days)

----------------------------------------------------------------------------
(* AlertManager *)

NoFile == [ok |-> TRUE, alerts |-> <<>>]
Unreadable == [ok |-> FALSE, alerts |-> <<>>]

SaveOutcomes == {"saved", "failed_before_write", "failed_in_write"}

RECURSIVE ConcatAlerts(_, _, _, _)
ConcatAlerts(files, lo, hi, type) ==
    IF lo > hi THEN <<>>
    ELSE (IF lo \in DOMAIN files /\ files[lo].ok
          THEN SelectType(files[lo].alerts, type) ELSE <<>>)
         \o ConcatAlerts(files, lo + 1, hi, type)

\* variant: the alert that sorts last, i.e. the oldest
RECURSIVE OldestOf(_)
OldestOf(s) ==
    IF Len(s) = 1 THEN s[1]
    ELSE LET rest == OldestOf(Tail(s))
         IN  IF rest.ts < s[1].ts THEN rest ELSE s[1]

\* alerts.sort(key=timestamp, reverse=True); alerts[0]
RECURSIVE NewestOf(_)
NewestOf(s) ==
    IF Len(s) = 1 THEN s[1]
    ELSE LET rest == NewestOf(Tail(s))
         IN  IF rest.ts > s[1].ts THEN rest ELSE s[1]

_get_last_alert(files, t, type) ==
    LET found == ConcatAlerts(files, DateOf(t) - AlertLookbackDays, DateOf(t), type)
    IN  IF found = <<>> THEN <<>> ELSE <<NewestOf(found)>>

\* variant: a cooldown that still holds on its last day
InCooldownInclusive(last, t, cooldownDays) ==
    last # <<>> /\ DaysBetween(t, last[1].ts) <= cooldownDays

InCooldown(last, t, cooldownDays) ==
    last # <<>> /\ DaysBetween(t, last[1].ts) < cooldownDays

_save_alert(files, alert, outcome) ==
    LET d == DateOf(alert.ts)
        old == IF files[d].ok THEN files[d].alerts ELSE <<>>
    IN  CASE outcome = "saved" ->
                [files EXCEPT ![d] = [ok |-> TRUE, alerts |-> Append(old, alert)]]
          [] outcome = "failed_before_write" -> files
          [] outcome = "failed_in_write" -> [files EXCEPT ![d] = Unreadable]

DepressionAlert(t) ==
    [type |-> "depression", ts |-> t, severity |-> "warning",
     details |-> [detection_threshold |-> DepressionThresholdPct,
                  detection_period |-> DepressionWindowDays]]

\* the alert check_depression_alert returns (<<>> for None)
check_depression_alert(efiles, afiles, t) ==
    IF ~detect_depression_risk(efiles, t, DepressionWindowDays, DepressionThresholdPct)
    THEN <<>>
    ELSE IF InCooldown(_get_last_alert(afiles, t, "depression"), t, DepressionCooldownDays)
    THEN <<>>
    ELSE <<DepressionAlert(t)>>

\* variant: any turn to negative counts as a change
AnyTurnNegative(previous, latest) ==
    \/ latest = "negative" /\ previous # "negative"
    \/ latest = "positive" /\ previous = "negative"

SignificantChange(previous, latest) ==
    \/ latest = "negative" /\ previous = "positive"
    \/ latest = "positive" /\ previous = "negative"

EmotionChangeAlert(t, previous, latest) ==
    [type |-> "emotion_change", ts |-> t, severity |-> "info",
     details |-> [from_emotion |-> previous.cat, to_emotion |-> latest.cat,
                  from_timestamp |-> <<previous.ts, previous.us>>,
                  to_timestamp |-> <<latest.ts, latest.us>>]]

\* the alert check_emotion_change_alert returns (<<>> for None)
check_emotion_change_alert(efiles, afiles, t) ==
    LET logs == load_emotion_logs(efiles, t, EmotionChangeWindowDays)
    IN  IF Len(logs) < 2 THEN <<>>
        ELSE LET latest == logs[Len(logs)]
                 previous == logs[Len(logs) - 1]
             IN  IF ~SignificantChange(previous.cat, latest.cat) THEN <<>>
                 ELSE IF InCooldown(_get_last_alert(afiles, t, "emotion_change"),
                                    t, EmotionChangeCooldownDays)
                 THEN <<>>
                 ELSE <<EmotionChangeAlert(t, previous, latest)>>

\* self._save_alert(alert) of an alert that was raised; its result is dropped
SaveRaised(files, raised, outcome) ==
    IF raised = <<>> THEN files ELSE _save_alert(files, raised[1], outcome)

----------------------------------------------------------------------------
(* Logger.log_emotion: the entry is appended to today's day file and the   *)
(* list is written back.                                                   *)

LogEntry(file, t, cat) ==
    [ts |-> t, us |-> Len(SelectSeq(file, LAMBDA r : r.ts = t)), cat |-> cat]

log_emotion(files, t, cat) ==
    [files EXCEPT ![DateOf(t)] = Append(@, LogEntry(@, t, cat))]

RECURSIVE LogAll(_, _)
LogAll(files, utterances) ==
    IF utterances = <<>> THEN files
    ELSE LogAll(log_emotion(files, utterances[1][1], utterances[1][2]),
                Tail(utterances))

----------------------------------------------------------------------------
(* The user's utterances: for each date 0 .. MaxDay the analysed category  *)
(* of each utterance of that day and the tick of the day it is made at.    *)

N == <<<<0, "negative">>>>
P == <<<<0, "positive">>>>
E == <<>>

AllNegative == <<N, N, N, N, N, N, N, N, N, N, N>>
FlipDaily == <<N, P, N, N, N, N, P, N, E, N, N>>
FourOfSeven == <<N, N, N, N, P, P, N, <<<<1, "positive">>>>, E, E, P>>
MixedDays ==
    <<N,
      <<<<0, "negative">>, <<0, "negative">>, <<1, "positive">>>>,
      <<<<0, "negative">>, <<1, "positive">>>>,
      <<<<0, "unknown">>>>,
      N,
      <<<<0, "negative">>, <<1, "unknown">>>>,
      N,
      <<<<0, "positive">>, <<1, "neutral">>>>,
      <<<<0, "negative">>, <<0, "positive">>>>,
      <<<<1, "unknown">>>>,
      N>>
SixDays == <<E, N, N, N, N, N, N, <<<<1, "negative">>>>, E, N, P>>
OldFlip == <<E, E, E, E, N, P, N, E, E, E, E>>
LateStart == <<E, E, E, E, E, E, E, E, <<<<0, "positive">>, <<0, "negative">>>>, E, N>>

Scripts == {AllNegative, FlipDaily, FourOfSeven, MixedDays, SixDays, OldFlip,
            LateStart}

DayUtterances(script, d) ==
    [i \in 1..Len(script[d + 1]) |->
        <<d * TicksPerDay + script[d + 1][i][1], script[d + 1][i][2]>>]

RECURSIVE Utterances(_, _, _)
Utterances(script, lo, hi) ==
    IF lo > hi THEN <<>>
    ELSE DayUtterances(script, lo) \o Utterances(script, lo + 1, hi)

----------------------------------------------------------------------------
(* The alert engine as a state machine.  Before the run the utterances of  *)
(* the dates before StartDay were logged and no check was made.            *)

Init ==
    /\ now = StartTick
    /\ \E script \in Scripts :
         /\ emotionFiles = LogAll([d \in Dates |-> <<>>],
                                  Utterances(script, 0, StartDay - 1))
         /\ pending = Utterances(script, StartDay, MaxDay)
    /\ alertFiles = [d \in Dates |-> NoFile]
    /\ pc = "idle"
    /\ alerts = <<>>
    /\ lastCall = "none"
    /\ returned = <<>>
    /\ risk = <<>>
    /\ threshold = DefaultThreshold
    /\ verdict = <<>>
    /\ configFiles = <<>>
    /\ lexicons = <<>>
    /\ analysis = <<>>
    /\ Elsewhere

\* the tick of the next utterance
NextDue == IF pending = <<>> THEN MaxTick + 1 ELSE pending[1][1]

\* the clock advances between calls, once the utterances made now are logged
Tick ==
    /\ pc = "idle"
    /\ now < MaxTick
    /\ NextDue > now
    /\ now' = now + 1
    /\ UNCHANGED <<emotionFiles, alertFiles, pc, alerts, lastCall, returned, pending>>
    /\ UNCHANGED <<risk, threshold, verdict, configFiles, lexicons, analysis>>
    /\ UNCHANGED <<dayFile, threads, chatHistory, report>>

\* process_message logs the emotion of the utterance made now
LogEmotion ==
    /\ pc = "idle"
    /\ NextDue = now
    /\ emotionFiles' = log_emotion(emotionFiles, now, pending[1][2])
    /\ pending' = Tail(pending)
    /\ lastCall' = "none"
    /\ returned' = <<>>
    /\ UNCHANGED <<now, alertFiles, pc, alerts>>
    /\ UNCHANGED <<risk, threshold, verdict, configFiles, lexicons, analysis>>
    /\ UNCHANGED <<dayFile, threads, chatHistory, report>>

CheckDepression ==
    /\ pc = "idle"
    /\ LET raised == check_depression_alert(emotionFiles, alertFiles, now)
       IN  /\ returned' = raised
           /\ \E o \in SaveOutcomes : alertFiles' = SaveRaised(alertFiles, raised, o)
    /\ lastCall' = "check_depression_alert"
    /\ UNCHANGED <<now, emotionFiles, pc, alerts, pending>>
    /\ UNCHANGED <<risk, threshold, verdict, configFiles, lexicons, analysis>>
    /\ UNCHANGED <<dayFile, threads, chatHistory, report>>

CheckEmotionChange ==
    /\ pc = "idle"
    /\ LET raised == check_emotion_change_alert(emotionFiles, alertFiles, now)
       IN  /\ returned' = raised
           /\ \E o \in SaveOutcomes : alertFiles' = SaveRaised(alertFiles, raised, o)
    /\ lastCall' = "check_emotion_change_alert"
    /\ UNCHANGED <<now, emotionFiles, pc, alerts, pending>>
    /\ UNCHANGED <<risk, threshold, verdict, configFiles, lexicons, analysis>>
    /\ UNCHANGED <<dayFile, threads, chatHistory, report>>

\* check_all_alerts, first call: check_depression_alert
CheckAllDepression ==
    /\ pc = "idle"
    /\ LET raised == check_depression_alert(emotionFiles, alertFiles, now)
       IN  /\ alerts' = raised
           /\ \E o \in SaveOutcomes : alertFiles' = SaveRaised(alertFiles, raised, o)
    /\ pc' = "emotion_change"
    /\ UNCHANGED <<now, emotionFiles, lastCall, returned, pending>>
    /\ UNCHANGED <<risk, threshold, verdict, configFiles, lexicons, analysis>>
    /\ UNCHANGED <<dayFile, threads, chatHistory, report>>

\* check_all_alerts, second call: check_emotion_change_alert, then return
CheckAllEmotionChange ==
    /\ pc = "emotion_change"
    /\ LET raised == check_emotion_change_alert(emotionFiles, alertFiles, now)
       IN  /\ returned' = alerts \o raised
           /\ \E o \in SaveOutcomes : alertFiles' = SaveRaised(alertFiles, raised, o)
    /\ alerts' = <<>>
    /\ lastCall' = "check_all_alerts"
    /\ pc' = "idle"
    /\ UNCHANGED <<now, emotionFiles, pending>>
    /\ UNCHANGED <<risk, threshold, verdict, configFiles, lexicons, analysis>>
    /\ UNCHANGED <<dayFile, threads, chatHistory, report>>

Next ==
    \/ Tick
    \/ LogEmotion
    \/ CheckDepression
    \/ CheckEmotionChange
    \/ CheckAllDepression
    \/ CheckAllEmotionChange

Spec == Init /\ [][Next]_vars

----------------------------------------------------------------------------
(* detect_depression_risk on its own: the day files of the dates 0 ..      *)
(* StartDay hold any of a few kinds of day, and the function is called     *)
(* with a window and a threshold.                                          *)

\* a day's utterances by kind: none, negative_ratio 0.8, 0.5, 0.6, only
\* unknown records, an unknown and a negative record
DayKinds ==
    [none |-> <<>>,
     high |-> <<"negative", "negative", "negative", "negative", "positive">>,
     low  |-> <<"negative", "positive">>,
     edge |-> <<"negative", "negative", "negative", "positive", "positive">>,
     unknown |-> <<"unknown">>,
     mixed |-> <<"unknown", "negative">>]

CommonKinds == {"none", "high", "low"}

\* weeks in which the rarer kinds of day occur
SpecialWeeks ==
    {[d \in 0..StartDay |-> IF d = 0 THEN "none" ELSE IF d <= k THEN "edge" ELSE "low"] :
        k \in 0..StartDay}
    \cup {[d \in 0..StartDay |-> IF d = k THEN "unknown" ELSE "high"] : k \in 0..StartDay}
    \cup {[d \in 0..StartDay |-> IF d = k THEN "mixed" ELSE "low"] : k \in 0..StartDay}

Weeks == [0..StartDay -> CommonKinds] \cup SpecialWeeks

RECURSIVE WeekUtterances(_, _)
WeekUtterances(week, d) ==
    IF d > StartDay THEN <<>>
    ELSE [i \in 1..Len(DayKinds[week[d]]) |-> <<d * TicksPerDay, DayKinds[week[d]][i]>>]
         \o WeekUtterances(week, d + 1)

RiskWindows == {3, DepressionWindowDays}
RiskThresholds == {DepressionThresholdPct, 80}

InitRisk ==
    /\ now = StartTick
    /\ \E week \in Weeks :
         emotionFiles = LogAll([d \in Dates |-> <<>>], WeekUtterances(week, 0))
    /\ pending = <<>>
    /\ alertFiles = [d \in Dates |-> NoFile]
    /\ pc = "idle"
    /\ alerts = <<>>
    /\ lastCall = "none"
    /\ returned = <<>>
    /\ risk = <<>>
    /\ threshold = DefaultThreshold
    /\ verdict = <<>>
    /\ configFiles = <<>>
    /\ lexicons = <<>>
    /\ analysis = <<>>
    /\ Elsewhere

DetectRisk ==
    /\ \E days \in RiskWindows : \E thresholdPct \in RiskThresholds :
         risk' = <<[days |-> days, threshold |-> thresholdPct,
                    result |-> detect_depression_risk(emotionFiles, now, days,
                                                      thresholdPct)]>>
    /\ UNCHANGED <<now, emotionFiles, alertFiles, pc, alerts, lastCall, returned,
                   pending, threshold, verdict, configFiles, lexicons, analysis>>
    /\ UNCHANGED <<dayFile, threads, chatHistory, report>>

NextRisk == DetectRisk

SpecRisk == InitRisk /\ [][NextRisk]_vars

----------------------------------------------------------------------------
(* PhishingDetector.  A text is a list of words joined by single blanks;   *)
(* the words stand for the Korean words of the source:                     *)
(*   account_number 계좌번호, security_code 보안코드, auth_number 인증번호,   *)
(*   password 비밀번호, remit 송금, transfer 이체, financial_accident        *)
(*   금융사고, prosecution 검찰, police 경찰, fss 금감원, urgent 급한,        *)
(*   emergency 긴급, quickly 빨리, right_now 지금 당장, hello 안녕하세요,     *)
(*   yes 네, now 지금, at_once 당장, number_obj 번호를, tell_me 알려주세요.,  *)
(*   account_at 계좌에, problem 문제가, occurred 생겼습니다.,                 *)
(*   very_urgent 긴급한.                                                    *)
(* Each word is spelled by its characters, a Hangul syllable being one     *)
(* character, written in Latin letters.  Scores are hundredths.            *)

patterns ==
    [high_risk |-> <<"account_number", "security_code", "auth_number", "password", "OTP">>,
     medium_risk |-> <<"remit", "transfer", "financial_accident", "prosecution",
                       "police", "fss">>,
     low_risk |-> <<"urgent", "emergency", "quickly", "right_now">>]

\* the characters of each word
Spelling ==
    [account_number |-> <<"gye", "jwa", "beon", "ho">>,
     security_code |-> <<"bo", "an", "ko", "deu">>,
     auth_number |-> <<"in", "jeung", "beon", "ho">>,
     password |-> <<"bi", "mil", "beon", "ho">>,
     OTP |-> <<"O", "T", "P">>,
     otp |-> <<"o", "t", "p">>,
     remit |-> <<"song", "geum">>,
     transfer |-> <<"i", "che">>,
     financial_accident |-> <<"geum", "yung", "sa", "go">>,
     prosecution |-> <<"geom", "chal">>,
     police |-> <<"gyeong", "chal">>,
     fss |-> <<"geum", "gam", "won">>,
     urgent |-> <<"geup", "han">>,
     emergency |-> <<"gin", "geup">>,
     quickly |-> <<"ppal", "li">>,
     right_now |-> <<"ji", "geum", " ", "dang", "jang">>,
     hello |-> <<"an", "nyeong", "ha", "se", "yo">>,
     yes |-> <<"ne">>,
     now |-> <<"ji", "geum">>,
     at_once |-> <<"dang", "jang">>,
     number_obj |-> <<"beon", "ho", "reul">>,
     tell_me |-> <<"al", "ryeo", "ju", "se", "yo", ".">>,
     account_at |-> <<"gye", "jwa", "e">>,
     problem |-> <<"mun", "je", "ga">>,
     occurred |-> <<"saeng", "gyeot", "seup", "ni", "da", ".">>,
     very_urgent |-> <<"gin", "geup", "han">>,
     \* the emotion lexicon
     good |-> <<"joh", "a">>,
     glad |-> <<"gi", "ppeu">>,
     happiness |-> <<"haeng", "bok">>,
     laugh |-> <<"ut">>,
     excited |-> <<"sin", "na">>,
     pleasant |-> <<"jeul", "geop">>,
     fun |-> <<"jae", "mit">>,
     sad |-> <<"seul", "peo">>,
     gloomy |-> <<"u", "ul">>,
     tears |-> <<"nun", "mul">>,
     cry |-> <<"ul">>,
     upset |-> <<"sok", "sang">>,
     heartache |-> <<"ma", "eum", "i", " ", "a", "peu">>,
     painful |-> <<"go", "tong", "seu", "reop">>,
     angry |-> <<"hwa", "na">>,
     annoyance |-> <<"jja", "jeung">>,
     fuming |-> <<"yeol", "bat">>,
     rage |-> <<"bun", "no">>,
     get_angry |-> <<"hwa", "ga", " ", "na">>,
     annoyed |-> <<"jja", "jeung", "na">>,
     going_mad |-> <<"mi", "chi", "get">>,
     worry |-> <<"geok", "jeong">>,
     anxious |-> <<"bul", "an">>,
     restless |-> <<"cho", "jo">>,
     afraid |-> <<"du", "ryeop">>,
     scary |-> <<"mu", "seop">>,
     trembling |-> <<"tteol", "lyeo">>,
     tense |-> <<"gin", "jang">>,
     meaningless |-> <<"ui", "mi", " ", "eop">>,
     empty |-> <<"gong", "heo">>,
     futile |-> <<"heo", "mu">>,
     hate_living |-> <<"sal", "gi", " ", "silh">>,
     despair |-> <<"jeol", "mang">>,
     hopeless |-> <<"hui", "mang", "i", " ", "eop">>,
     peaceful |-> <<"pyeong", "on">>,
     still |-> <<"go", "yo">>,
     composed |-> <<"chim", "chak">>,
     sedate |-> <<"cha", "bun">>,
     comfortable |-> <<"pyeon", "an">>,
     steady |-> <<"an", "jeong">>,
     very_much |-> <<"mae", "u">>,
     really |-> <<"jeong", "mal">>,
     too |-> <<"neo", "mu">>,
     hugely |-> <<"eom", "cheong">>,
     greatly |-> <<"goeng", "jang", "hi">>,
     a_little |-> <<"jo", "geum">>,
     slightly |-> <<"yak", "gan">>,
     a_touch |-> <<"sal", "jjak">>,
     somewhat |-> <<"da", "so">>,
     no |-> <<"a", "ni">>,
     not |-> <<"anh">>,
     none |-> <<"eop">>,
     dont |-> <<"mal">>,
     cannot |-> <<"mot">>,
     \* the words of the utterances
     blank |-> <<" ">>,
     am_happy |-> <<"haeng", "bok", "hae", "yo">>,
     like_it |-> <<"joh", "a", "yo">>,
     dont_like |-> <<"joh", "a", "ha", "ji", " ", "anh", "a", "yo">>,
     am_gloomy |-> <<"u", "ul", "hae", "yo">>,
     too_gloomy |-> <<"neo", "mu", "u", "ul", "hae", "yo">>,
     am_sad |-> <<"seul", "peo", "yo">>,
     am_angry |-> <<"hwa", "na", "yo">>,
     am_calm |-> <<"pyeong", "on", "hae", "yo">>,
     is_not |-> <<"anh", "a", "yo">>,
     market_trip |-> <<"o", "neul", " ", "a", "chim", "e", "neun", " ", "si", "jang",
                       "e", " ", "ga", "seo", " ", "gwa", "il", "ha", "go", " ",
                       "chae", "so", "reul", " ", "sat", "eo", "yo">>]

\* the text: its words joined by blanks
RECURSIVE Chars(_)
Chars(words) ==
    IF words = <<>> THEN <<>>
    ELSE Spelling[words[1]] \o (IF Len(words) > 1 THEN <<" ">> ELSE <<>>)
         \o Chars(Tail(words))

\* str.lower()
LowerChar(c) ==
    CASE c = "O" -> "o" [] c = "T" -> "t" [] c = "P" -> "p" [] OTHER -> c

Lower(chars) == [i \in 1..Len(chars) |-> LowerChar(chars[i])]

\* len(text)
TextLen(words) == Len(Chars(words))

\* the positions at which part occurs in whole
Occurrences(part, whole) ==
    {i \in 1..(Len(whole) - Len(part) + 1) : SubSeq(whole, i, i + Len(part) - 1) = part}

\* keyword.lower() in normalized_text
Contains(words, keyword) ==
    Occurrences(Lower(Spelling[keyword]), Lower(Chars(words))) # {}

\* variant: a keyword is listed once for each of its occurrences
RECURSIVE PerOccurrence(_, _)
PerOccurrence(words, keywords) ==
    IF keywords = <<>> THEN <<>>
    ELSE [i \in 1..Cardinality(Occurrences(Lower(Spelling[keywords[1]]),
                                           Lower(Chars(words)))) |-> keywords[1]]
         \o PerOccurrence(words, Tail(keywords))

DetectedPerOccurrence(words, level) == PerOccurrence(words, patterns[level])

Detected(words, level) == SelectSeq(patterns[level], LAMBDA k : Contains(words, k))

Min(a, b) == IF a < b THEN a ELSE b
Max(a, b) == IF a > b THEN a ELSE b

PatternScore(words) ==
    Len(Detected(words, "high_risk")) * 50
    + Len(Detected(words, "medium_risk")) * 30
    + Len(Detected(words, "low_risk")) * 10

PatternLevel(score) ==
    IF score >= 70 THEN "high"
    ELSE IF score >= 40 THEN "medium"
    ELSE IF score > 0 THEN "low"
    ELSE "safe"

\* the explanation sentence chosen for a level, named by its level
PatternExplanation(risk_level) ==
    IF risk_level \in {"high", "medium", "low"} THEN risk_level ELSE "no_sign"

detect_with_patterns(words) ==
    IF TextLen(words) < 5
    THEN [risk_level |-> "unknown", score |-> 0, keywords |-> <<>>,
          explanation |-> "too_short"]
    ELSE LET normalized_score == Min(PatternScore(words), 100)
             risk_level == PatternLevel(normalized_score)
         IN  [risk_level |-> risk_level, score |-> normalized_score,
              keywords |-> Detected(words, "high_risk") \o Detected(words, "medium_risk")
                           \o Detected(words, "low_risk"),
              explanation |-> PatternExplanation(risk_level)]

(* The reply of the LLM chain is a list of characters, the label 확률       *)
(* being the one character "probability" and "x" any other character.      *)

Digits == {"0", "1", "2", "3", "4", "5", "6", "7", "8", "9"}
DigitValue ==
    [c \in Digits |-> CASE c = "0" -> 0 [] c = "1" -> 1 [] c = "2" -> 2 [] c = "3" -> 3
                        [] c = "4" -> 4 [] c = "5" -> 5 [] c = "6" -> 6 [] c = "7" -> 7
                        [] c = "8" -> 8 [] c = "9" -> 9]

\* [:\s]*
RECURSIVE SkipSeparators(_, _)
SkipSeparators(result, j) ==
    IF j <= Len(result) /\ result[j] \in {":", " "}
    THEN SkipSeparators(result, j + 1) ELSE j

\* ([0-9.]+), greedy
RECURSIVE NumberRun(_, _)
NumberRun(result, j) ==
    IF j <= Len(result) /\ result[j] \in Digits \cup {"."}
    THEN <<result[j]>> \o NumberRun(result, j + 1) ELSE <<>>

\* re.search of the probability pattern from position i on: the group of the
\* leftmost match, in a one-element list, or <<>>
RECURSIVE ProbabilityMatch(_, _)
ProbabilityMatch(result, i) ==
    IF i > Len(result) THEN <<>>
    ELSE LET group == NumberRun(result, SkipSeparators(result, i + 1))
         IN  IF result[i] = "probability" /\ group # <<>> THEN <<group>>
             ELSE ProbabilityMatch(result, i + 1)

RECURSIVE DecimalValue(_)
DecimalValue(digits) ==
    IF digits = <<>> THEN 0
    ELSE DecimalValue(SubSeq(digits, 1, Len(digits) - 1)) * 10
         + DigitValue[digits[Len(digits)]]

\* float() of a string of digits and dots, in hundredths (of a string with at
\* most two decimals); <<>> is ValueError
Float(group) ==
    LET dots == {i \in 1..Len(group) : group[i] = "."}
    IN  IF Cardinality(dots) > 1 \/ Cardinality(dots) = Len(group) THEN <<>>
        ELSE IF dots = {} THEN <<DecimalValue(group) * 100>>
        ELSE LET dot == CHOOSE i \in dots : TRUE
                 decimals == SubSeq(group, dot + 1, Len(group))
             IN  <<DecimalValue(SubSeq(group, 1, dot - 1)) * 100
                   + DecimalValue(SubSeq(decimals \o <<"0", "0">>, 1, 2))>>

\* the replies carry no level, keyword or explanation label, so these three
\* fields keep their defaults ("unparsed" names the default explanation)
_parse_llm_result(result) ==
    LET probability_match == ProbabilityMatch(result, 1)
        value == IF probability_match = <<>> THEN <<>> ELSE Float(probability_match[1])
    IN  [risk_level |-> "unknown",
         score |-> IF value = <<>> THEN 0 ELSE value[1],
         keywords |-> <<>>,
         explanation |-> "unparsed"]

\* llm is what chain.run does: it raises, or it returns a reply
detect_with_llm(words, llm) ==
    IF TextLen(words) < 10
    THEN [risk_level |-> "unknown", score |-> 0, keywords |-> <<>>,
          explanation |-> "too_short"]
    ELSE IF llm.outcome = "raises" THEN detect_with_patterns(words)
    ELSE _parse_llm_result(llm.reply)

\* variant: the thresholds are exclusive
CombinedLevelAbove(combined_score, tau) ==
    IF combined_score > tau THEN "high"
    ELSE IF combined_score * 10 > tau * 7 THEN "medium"
    ELSE IF combined_score * 10 > tau * 3 THEN "low"
    ELSE "safe"

CombinedLevel(combined_score, tau) ==
    IF combined_score >= tau THEN "high"
    ELSE IF combined_score * 10 >= tau * 7 THEN "medium"
    ELSE IF combined_score * 10 >= tau * 3 THEN "low"
    ELSE "safe"

\* variant: the low level is flagged too
FlaggedFromLow(combined_score, tau) == combined_score * 10 >= tau * 3

CombinedIsPhishing(combined_score, tau) == combined_score * 10 >= tau * 7

\* combined_keywords: each keyword once, in order of first occurrence
RECURSIVE Deduplicate(_)
Deduplicate(keywords) ==
    IF keywords = <<>> THEN <<>>
    ELSE LET front == Deduplicate(SubSeq(keywords, 1, Len(keywords) - 1))
             last == keywords[Len(keywords)]
         IN  IF \E i \in 1..Len(front) : front[i] = last THEN front
             ELSE Append(front, last)

\* variant: the LLM step is skipped up to and including 0.2
SkipsLLMUpTo(pattern_score) == pattern_score <= 20

\* pattern_result["score"] < 0.2: the LLM step is skipped
SkipsLLM(pattern_score) == pattern_score < 20

\* a text is [convertible, words]; str(text) raises when it is not convertible
detect(text, llm, tau) ==
    IF ~text.convertible
    THEN [is_phishing |-> FALSE, risk_level |-> "unknown", score |-> 0,
          keywords |-> <<>>, explanation |-> "invalid_text", method |-> "none"]
    ELSE LET pattern_result == detect_with_patterns(text.words)
         IN  IF SkipsLLM(pattern_result.score)
             THEN [is_phishing |-> FALSE, risk_level |-> pattern_result.risk_level,
                   score |-> pattern_result.score,
                   keywords |-> pattern_result.keywords,
                   explanation |-> pattern_result.explanation, method |-> "pattern"]
             ELSE LET llm_result == detect_with_llm(text.words, llm)
                      combined_score == Max(pattern_result.score, llm_result.score)
                  IN  [is_phishing |-> CombinedIsPhishing(combined_score, tau),
                       risk_level |-> CombinedLevel(combined_score, tau),
                       score |-> combined_score,
                       keywords |-> Deduplicate(pattern_result.keywords
                                                \o llm_result.keywords),
                       explanation |->
                           IF llm_result.explanation # "unparsed"
                           THEN llm_result.explanation
                           ELSE pattern_result.explanation,
                       method |-> "combined"]

\* detect reaches its LLM step, the call of detect_with_llm
LLMStepRuns(text) ==
    text.convertible /\ ~SkipsLLM(detect_with_patterns(text.words).score)

\* chain.run is reached
LLMCalled(text) == LLMStepRuns(text) /\ TextLen(text.words) >= 10

----------------------------------------------------------------------------
(* The texts and the replies detect is called with *)

\* "지금 당장 OTP 번호를 알려주세요. 계좌에 문제가 생겼습니다."
SuspiciousText ==
    <<"now", "at_once", "OTP", "number_obj", "tell_me", "account_at", "problem",
      "occurred">>

Texts ==
    {[convertible |-> FALSE, words |-> <<>>]}
    \cup {[convertible |-> TRUE, words |-> w] : w \in
           {<<>>,
            <<"yes">>,
            <<"account_number">>,
            <<"very_urgent", "hello">>,
            SuspiciousText,
            <<"hello">>,
            <<"urgent", "hello">>,
            <<"urgent", "urgent", "hello">>,
            <<"urgent", "quickly">>,
            <<"urgent", "quickly", "hello">>,
            <<"remit", "hello">>,
            <<"remit", "urgent", "hello">>,
            <<"otp", "hello", "hello">>,
            <<"remit", "prosecution", "hello">>,
            <<"OTP", "remit">>,
            <<"OTP", "urgent", "quickly", "hello">>,
            <<"account_number", "OTP", "remit">>}}

Numbers ==
    {<<"0">>, <<"0", ".", "1">>, <<"0", ".", "2", "1">>, <<"0", ".", "4", "8">>,
     <<"0", ".", "4", "9">>, <<"0", ".", "7">>, <<"0", ".", "8", "5">>, <<"1">>,
     <<"1", ".", "0">>, <<"8", "5">>, <<"1", ".", "2", ".", "3">>, <<".">>,
     <<".", "5">>, <<"0", ".", "8", "5", ".">>}

Replies ==
    {<<"probability", ":", " ">> \o n : n \in Numbers}
    \cup {<<"x", "probability", " ">> \o n \o <<"x">> : n \in Numbers}
    \cup {<<>>,
          <<"x", "x">>,
          <<"0", ".", "8">>,
          <<"probability", "(", "0", "-", "1", ")", ":", " ", "0", ".", "8">>,
          <<"probability", "x", "probability", ":", "0", ".", "8">>}

LLMOutcomes ==
    {[outcome |-> "raises", reply |-> <<>>]}
    \cup {[outcome |-> "returns", reply |-> r] : r \in Replies}

NotCalled == [outcome |-> "not_called", reply |-> <<>>]

InitPhish ==
    /\ now = StartTick
    /\ emotionFiles = [d \in Dates |-> <<>>]
    /\ pending = <<>>
    /\ alertFiles = [d \in Dates |-> NoFile]
    /\ pc = "idle"
    /\ alerts = <<>>
    /\ lastCall = "none"
    /\ returned = <<>>
    /\ risk = <<>>
    /\ threshold \in {50, DefaultThreshold}
    /\ verdict = <<>>
    /\ configFiles = <<>>
    /\ lexicons = <<>>
    /\ analysis = <<>>
    /\ Elsewhere

\* process_message: self.phishing_detector.detect(user_input)
Detect ==
    /\ \E text \in Texts :
         \E llm \in (IF LLMCalled(text) THEN LLMOutcomes ELSE {NotCalled}) :
            verdict' = <<[text |-> text, llm |-> llm,
                          result |-> detect(text, llm, threshold)]>>
    /\ UNCHANGED <<now, emotionFiles, alertFiles, pc, alerts, lastCall, returned,
                   pending, risk, threshold, configFiles, lexicons, analysis>>
    /\ UNCHANGED <<dayFile, threads, chatHistory, report>>

NextPhish == Detect

SpecPhish == InitPhish /\ [][NextPhish]_vars

----------------------------------------------------------------------------
(* What the claims speak of, stated from the files on disk *)

CooldownDays(type) ==
    IF type = "depression" THEN DepressionCooldownDays ELSE EmotionChangeCooldownDays

\* the alerts of one type found in the day files
PersistedAlerts(files, type) ==
    {a \in UNION {{files[d].alerts[i] : i \in 1..Len(files[d].alerts)} : d \in Dates} :
        a.type = type}

\* an alert of the type was persisted less than `days` days before t
PersistedWithin(files, type, t, days) ==
    \E a \in PersistedAlerts(files, type) : t - a.ts < days * TicksPerDay

RecordsOf(files, dates) ==
    UNION {{files[d][i] : i \in 1..Len(files[d])} : d \in dates}

\* the two chronologically most recent records of a set have opposite categories
LatestTwoOpposite(records) ==
    \E latest \in records : \E previous \in records \ {latest} :
        /\ \A r \in records \ {latest} : TsBefore(r, latest)
        /\ \A r \in records \ {latest, previous} : TsBefore(r, previous)
        /\ {latest.cat, previous.cat} = {"positive", "negative"}

TypesOf(list) == {list[i].type : i \in 1..Len(list)}

\* the steps in which check_depression_alert runs, and what it returned
DepressionChecked ==
    /\ pc = "idle"
    /\ now' = now
    /\ \/ pc' = "emotion_change"
       \/ pc' = "idle" /\ lastCall' = "check_depression_alert"

DepressionResult == IF pc' = "emotion_change" THEN alerts' ELSE returned'

\* the steps in which check_emotion_change_alert runs, and what it returned
EmotionChangeChecked ==
    \/ pc = "emotion_change" /\ pc' = "idle"
    \/ /\ pc = "idle" /\ pc' = "idle" /\ now' = now
       /\ lastCall' = "check_emotion_change_alert"

EmotionChangeResult ==
    IF pc = "emotion_change" THEN SubSeq(returned', Len(alerts) + 1, Len(returned'))
    ELSE returned'

\* a step in which check_all_alerts returns
CheckAllReturns == pc = "emotion_change" /\ pc' = "idle"

----------------------------------------------------------------------------
\* C1: no check raises an alert of a type while an alert of that type lies
\* in the day files that is younger than the type's cooldown (3 days for
\* depression, 1 day for emotion_change).
C1_NoAlertInsideCooldown ==
    [][/\ DepressionChecked /\ DepressionResult # <<>>
            => ~PersistedWithin(alertFiles, "depression", now, DepressionCooldownDays)
       /\ EmotionChangeChecked /\ EmotionChangeResult # <<>>
            => ~PersistedWithin(alertFiles, "emotion_change", now,
                                EmotionChangeCooldownDays)]_vars

\* C1 witness: check_depression_alert returned None under sustained risk
\* because a depression alert younger than 3 days is on disk, although an
\* older depression alert precedes it.
C1_Witness ==
    /\ pc = "idle"
    /\ lastCall = "check_depression_alert"
    /\ returned = <<>>
    /\ detect_depression_risk(emotionFiles, now, DepressionWindowDays,
                              DepressionThresholdPct)
    /\ PersistedWithin(alertFiles, "depression", now, DepressionCooldownDays)
    /\ \E a \in PersistedAlerts(alertFiles, "depression") :
          now - a.ts >= DepressionCooldownDays * TicksPerDay

\* C2 (as claimed): when check_all_alerts returned an alert of a type and is
\* called again with the emotion records unchanged before that type's
\* cooldown has elapsed, the second call returns no alert of that type.
C2_CheckAllIdempotent ==
    [][CheckAllReturns /\ lastCall = "check_all_alerts"
         => \A i \in 1..Len(returned) : \A j \in 1..Len(returned') :
              returned[i].type = returned'[j].type
                => now - returned[i].ts >= CooldownDays(returned[i].type) * TicksPerDay]_vars

\* C3: check_depression_alert returns a depression alert exactly when
\* detect_depression_risk(7, 0.6) holds and no depression alert younger than
\* 3 days is on disk; otherwise it returns None and leaves the files alone.
C3_DepressionAlertIff ==
    [][DepressionChecked =>
         /\ DepressionResult # <<>>
              <=> /\ detect_depression_risk(emotionFiles, now, DepressionWindowDays,
                                            DepressionThresholdPct)
                  /\ ~PersistedWithin(alertFiles, "depression", now,
                                      DepressionCooldownDays)
         /\ DepressionResult # <<>> => DepressionResult = <<DepressionAlert(now)>>
         /\ DepressionResult = <<>> => alertFiles' = alertFiles]_vars

\* C3 witness: a depression alert is returned again once the earlier one on
\* disk is 3 days old.
C3_Witness ==
    /\ pc = "idle"
    /\ lastCall = "check_depression_alert"
    /\ returned = <<DepressionAlert(now)>>
    /\ \E a \in PersistedAlerts(alertFiles, "depression") :
          now - a.ts >= DepressionCooldownDays * TicksPerDay

\* C4 (as claimed): check_emotion_change_alert returns an alert exactly when
\* the two most recent of all persisted emotion records have opposite
\* categories and no emotion_change alert younger than 1 day is on disk.
C4_AllRecordsIff ==
    [][EmotionChangeChecked =>
         (EmotionChangeResult # <<>>
            <=> /\ LatestTwoOpposite(RecordsOf(emotionFiles, Dates))
                /\ ~PersistedWithin(alertFiles, "emotion_change", now,
                                    EmotionChangeCooldownDays))]_vars

\* C4 (amended): check_emotion_change_alert returns an alert exactly when the
\* two most recent of the records in the day files of today and the three
\* days before have opposite categories (positive and negative; a neutral or
\* unknown record never triggers) and no emotion_change alert younger than
\* 1 day is on disk.
C4_WindowRecordsIff ==
    [][EmotionChangeChecked =>
         (EmotionChangeResult # <<>>
            <=> /\ LatestTwoOpposite(RecordsOf(emotionFiles,
                        {d \in Dates : DateOf(now) - d \in 0..EmotionChangeWindowDays}))
                /\ ~PersistedWithin(alertFiles, "emotion_change", now,
                                    EmotionChangeCooldownDays))]_vars

\* C4 witness: an emotion_change alert was returned for a positive record
\* followed by a negative one.
C4_Witness ==
    /\ pc = "idle"
    /\ lastCall = "check_emotion_change_alert"
    /\ returned # <<>>
    /\ returned[1].details.from_emotion = "positive"
    /\ returned[1].details.to_emotion = "negative"

\* C5: when a depression alert younger than its 3-day cooldown is on disk
\* (persisted 1 day ago, say) and the sustained risk still holds,
\* check_all_alerts returns no depression alert, and it returns an
\* emotion_change alert if the two latest records flipped polarity and no
\* emotion_change alert was persisted in the last day.
C5_IndependentCooldowns ==
    [][/\ /\ pc = "idle" /\ pc' = "emotion_change"
          /\ PersistedWithin(alertFiles, "depression", now, DepressionCooldownDays)
          /\ detect_depression_risk(emotionFiles, now, DepressionWindowDays,
                                    DepressionThresholdPct)
          => alerts' = <<>>
       /\ /\ CheckAllReturns
          /\ alerts = <<>>
          /\ PersistedWithin(alertFiles, "depression", now, DepressionCooldownDays)
          /\ detect_depression_risk(emotionFiles, now, DepressionWindowDays,
                                    DepressionThresholdPct)
          => /\ "depression" \notin TypesOf(returned')
             /\ /\ LatestTwoOpposite(RecordsOf(emotionFiles, Dates))
                /\ ~PersistedWithin(alertFiles, "emotion_change", now,
                                    EmotionChangeCooldownDays)
                => "emotion_change" \in TypesOf(returned')]_vars

\* C5 witness: check_all_alerts returned an emotion_change alert and no
\* depression alert under sustained risk, the depression alert on disk being
\* one day old.
C5_Witness ==
    /\ pc = "idle"
    /\ lastCall = "check_all_alerts"
    /\ TypesOf(returned) = {"emotion_change"}
    /\ detect_depression_risk(emotionFiles, now, DepressionWindowDays,
                              DepressionThresholdPct)
    /\ \E a \in PersistedAlerts(alertFiles, "depression") :
          DaysBetween(now, a.ts) = 1

----------------------------------------------------------------------------
(* detect_depression_risk, stated from the day files *)

CountIn(file, cats) == Cardinality({i \in 1..Len(file) : file[i].cat \in cats})

\* the dated buckets of the window loaded for `days`: the dates with a record
\* of a counted category
Buckets(files, t, days) ==
    {d \in Dates : DateOf(t) - d \in 0..days /\ CountIn(files[d], CountedCategories) > 0}

RecentBuckets(buckets, days) ==
    {d \in buckets : Cardinality({e \in buckets : e > d}) < days}

\* negative_ratio of the bucket >= pct / 100
RatioAtLeast(files, d, pct) ==
    CountIn(files[d], {"negative"}) * 100 >= pct * CountIn(files[d], CountedCategories)

RatioIs(files, d, pct) ==
    CountIn(files[d], {"negative"}) * 100 = pct * CountIn(files[d], CountedCategories)

HighDays(files, t, days, pct) ==
    Cardinality({d \in RecentBuckets(Buckets(files, t, days), days) :
                    RatioAtLeast(files, d, pct)})

\* the window of 7 days holds exactly 7 buckets, on consecutive dates
SevenConsecutiveBuckets ==
    LET buckets == Buckets(emotionFiles, now, DepressionWindowDays)
    IN  /\ Cardinality(buckets) = DepressionWindowDays
        /\ \E first \in Dates : buckets = first..(first + DepressionWindowDays - 1)

DefaultRiskCall ==
    /\ risk # <<>>
    /\ risk[1].days = DepressionWindowDays
    /\ risk[1].threshold = DepressionThresholdPct

\* C6: detect_depression_risk(days, threshold) is true only if the loaded
\* window holds at least `days` dated buckets and at least 70% of `days` of
\* the most recent `days` buckets have negative_ratio >= threshold; with fewer
\* than `days` buckets it is false whatever the ratios.
C6_RiskOnlyIfSustained ==
    risk # <<>> =>
        LET days == risk[1].days
            buckets == Buckets(emotionFiles, now, days)
        IN  /\ risk[1].result
                => /\ Cardinality(buckets) >= days
                   /\ HighDays(emotionFiles, now, days, risk[1].threshold) * 10
                        >= MajorityTenths * days
            /\ Cardinality(buckets) < days => ~risk[1].result

\* C6 witness: the result is true with more buckets in the window than
\* `days`, the oldest of them, which is not counted, being below the threshold.
C6_Witness ==
    /\ DefaultRiskCall
    /\ risk[1].result
    /\ Cardinality(Buckets(emotionFiles, now, DepressionWindowDays))
         = DepressionWindowDays + 1
    /\ ~RatioAtLeast(emotionFiles, 0, DepressionThresholdPct)
    /\ HighDays(emotionFiles, now, DepressionWindowDays, DepressionThresholdPct) = 5

\* C7 (as claimed): with 7 consecutive dated buckets, detect_depression_risk(7,
\* 0.6) is true when all 7 days have negative_ratio 0.8 and false when only 5
\* of the 7 days have negative_ratio >= 0.6.
C7_FiveOfSevenIsNoRisk ==
    DefaultRiskCall /\ SevenConsecutiveBuckets =>
        /\ (\A d \in Buckets(emotionFiles, now, DepressionWindowDays) :
                RatioIs(emotionFiles, d, 80)) => risk[1].result
        /\ HighDays(emotionFiles, now, DepressionWindowDays, DepressionThresholdPct) = 5
             => ~risk[1].result

\* C7 (amended): with 7 consecutive dated buckets, detect_depression_risk(7,
\* 0.6) is true when all 7 days have negative_ratio 0.8, is still true when
\* only 5 of the 7 days have negative_ratio >= 0.6 (5 >= 4.9), and is false
\* when only 4 of the 7 days have.
C7_FiveOfSevenIsRisk ==
    DefaultRiskCall /\ SevenConsecutiveBuckets =>
        /\ (\A d \in Buckets(emotionFiles, now, DepressionWindowDays) :
                RatioIs(emotionFiles, d, 80)) => risk[1].result
        /\ HighDays(emotionFiles, now, DepressionWindowDays, DepressionThresholdPct) = 5
             => risk[1].result
        /\ HighDays(emotionFiles, now, DepressionWindowDays, DepressionThresholdPct) = 4
             => ~risk[1].result

\* C7 witness: the result is true with 7 consecutive buckets of which exactly
\* 5 have negative_ratio >= 0.6.
C7_Witness ==
    /\ DefaultRiskCall
    /\ SevenConsecutiveBuckets
    /\ HighDays(emotionFiles, now, DepressionWindowDays, DepressionThresholdPct) = 5
    /\ risk[1].result

----------------------------------------------------------------------------
(* PhishingDetector.detect *)

LevelRank(level) ==
    CASE level = "safe" -> 0 [] level = "low" -> 1 [] level = "medium" -> 2
      [] level = "high" -> 3

OrderedLevels == {"safe", "low", "medium", "high"}

\* C8 (as claimed): over the verdicts detect returns, risk_level is a
\* non-decreasing function of score: of two verdicts the one with the lower or
\* equal score never has the higher level (safe < low < medium < high), on
\* either path and across the 0.2 boundary between the paths.
C8_LevelMonotonicInScore ==
    [][/\ verdict # <<>> /\ verdict' # <<>>
       /\ verdict[1].result.risk_level \in OrderedLevels
       /\ verdict'[1].result.risk_level \in OrderedLevels
       /\ verdict[1].result.score <= verdict'[1].result.score
       => LevelRank(verdict[1].result.risk_level)
            <= LevelRank(verdict'[1].result.risk_level)]_vars

\* C9: in every verdict of detect, on the pattern-only, the combined and the
\* invalid-input path, is_phishing is true exactly when risk_level is medium
\* or high.
C9_PhishingIffMediumOrHigh ==
    verdict # <<>> =>
        (verdict[1].result.is_phishing
            <=> verdict[1].result.risk_level \in {"medium", "high"})

\* C9 witness: a combined verdict of level medium that is flagged, reached
\* by the score of the LLM reply.
C9_Witness ==
    /\ verdict # <<>>
    /\ verdict[1].result.method = "combined"
    /\ verdict[1].result.risk_level = "medium"
    /\ verdict[1].result.is_phishing
    /\ verdict[1].llm.outcome = "returns"
    /\ detect_with_patterns(verdict[1].text.words).risk_level = "low"

\* C10 (as claimed): every verdict of detect has a score within [0, 1],
\* whatever the text and whatever reply the LLM gives.
C10_ScoreInUnitInterval ==
    verdict # <<>> => verdict[1].result.score \in 0..100

\* the verdict was made with the LLM chain raising
ChainRaised == verdict # <<>> /\ verdict[1].llm.outcome = "raises"

\* C11 (as claimed): when the LLM chain raises, detect returns the
\* pattern-only verdict: the score and the risk_level detect_with_patterns
\* gives for the text, flagged exactly when that level is medium or high.
C11_FallbackIsPatternVerdict ==
    ChainRaised =>
        LET pattern_result == detect_with_patterns(verdict[1].text.words)
        IN  /\ verdict[1].result.score = pattern_result.score
            /\ verdict[1].result.risk_level = pattern_result.risk_level
            /\ verdict[1].result.is_phishing
                 <=> pattern_result.risk_level \in {"medium", "high"}

\* C12: when the pattern score is below 0.2 the LLM chain is never invoked
\* and the verdict is the pattern result's score, risk_level, keywords and
\* explanation with method pattern; when it is 0.2 or more the LLM step
\* (detect_with_llm) runs and the method is combined.
C12_SkipBelowPointTwo ==
    verdict # <<>> /\ verdict[1].text.convertible =>
        LET pattern_result == detect_with_patterns(verdict[1].text.words)
            result == verdict[1].result
        IN  /\ pattern_result.score < 20
                => /\ verdict[1].llm = NotCalled
                   /\ result.score = pattern_result.score
                   /\ result.risk_level = pattern_result.risk_level
                   /\ result.keywords = pattern_result.keywords
                   /\ result.explanation = pattern_result.explanation
                   /\ result.method = "pattern"
            /\ pattern_result.score >= 20
                => /\ LLMStepRuns(verdict[1].text)
                   /\ result.method = "combined"

\* C12 witness: at pattern score 0.2 exactly the chain was invoked and the
\* verdict is a combined one.
C12_Witness ==
    /\ verdict # <<>>
    /\ verdict[1].text.convertible
    /\ detect_with_patterns(verdict[1].text.words).score = 20
    /\ verdict[1].llm.outcome = "returns"
    /\ verdict[1].result.method = "combined"

\* C13: on the combined path the score is max(pattern score, llm score) and,
\* with the configured threshold tau: score >= tau gives high and flagged,
\* score >= 0.7 tau medium and flagged, score >= 0.3 tau low and not flagged,
\* anything lower safe and not flagged.
C13_CombinedThresholds ==
    verdict # <<>> /\ verdict[1].result.method = "combined" =>
        LET result == verdict[1].result
            words == verdict[1].text.words
            score == result.score
            expected ==
                IF score >= threshold THEN <<"high", TRUE>>
                ELSE IF score * 10 >= 7 * threshold THEN <<"medium", TRUE>>
                ELSE IF score * 10 >= 3 * threshold THEN <<"low", FALSE>>
                ELSE <<"safe", FALSE>>
        IN  /\ score >= detect_with_patterns(words).score
            /\ score >= detect_with_llm(words, verdict[1].llm).score
            /\ score \in {detect_with_patterns(words).score,
                          detect_with_llm(words, verdict[1].llm).score}
            /\ <<result.risk_level, result.is_phishing>> = expected

\* C13 witness: a combined verdict whose score is the one the LLM reply
\* gives, exactly 0.7 * tau for the default tau, with level medium.
C13_Witness ==
    /\ verdict # <<>>
    /\ verdict[1].result.method = "combined"
    /\ threshold = DefaultThreshold
    /\ verdict[1].llm.outcome = "returns"
    /\ verdict[1].result.score = 49
    /\ detect_with_patterns(verdict[1].text.words).score < 49
    /\ verdict[1].result.risk_level = "medium"

\* the keyword occurs in the text, both in lower case
OccursIn(keyword, words) ==
    LET k == Lower(Spelling[keyword])
        t == Lower(Chars(words))
    IN  \E i \in 1..Len(t) :
            \A j \in 1..Len(k) : i + j - 1 <= Len(t) /\ t[i + j - 1] = k[j]

\* the number of distinct keywords of a tier that the text contains
TierCount(words, level) ==
    Cardinality({k \in {patterns[level][i] : i \in 1..Len(patterns[level])} :
                    OccursIn(k, words)})

WeightedSum(words) ==
    50 * TierCount(words, "high_risk") + 30 * TierCount(words, "medium_risk")
    + 10 * TierCount(words, "low_risk")

\* C14: detect_with_patterns scores a text of at least 5 characters as
\* min(1, 0.5 H + 0.3 M + 0.1 L), H, M and L being the numbers of distinct
\* high, medium and low keywords the text contains (a repeated keyword counts
\* once), and maps the score to high if >= 0.7, medium if >= 0.4, low if > 0,
\* safe otherwise.
C14_PatternScoreAndLevel ==
    verdict # <<>> /\ verdict[1].text.convertible
        /\ Len(Chars(verdict[1].text.words)) >= 5 =>
        LET words == verdict[1].text.words
            pattern_result == detect_with_patterns(words)
            score == IF WeightedSum(words) > 100 THEN 100 ELSE WeightedSum(words)
        IN  /\ pattern_result.score = score
            /\ pattern_result.risk_level =
                 (IF score >= 70 THEN "high" ELSE IF score >= 40 THEN "medium"
                  ELSE IF score > 0 THEN "low" ELSE "safe")

\* C14 witness: a text in which one low keyword occurs twice was scored 0.1,
\* low, and detect returned that pattern result.
C14_Witness ==
    /\ verdict # <<>>
    /\ verdict[1].text.convertible
    /\ Len(Chars(verdict[1].text.words)) >= 5
    /\ Cardinality(Occurrences(Spelling["urgent"], Chars(verdict[1].text.words))) = 2
    /\ verdict[1].result.method = "pattern"
    /\ verdict[1].result.score = 10
    /\ verdict[1].result.risk_level = "low"

\* C15 (as claimed): with the default lexicon the text "지금 당장 OTP 번호를
\* 알려주세요. 계좌에 문제가 생겼습니다." gets a pattern score >= 0.7 and the
\* pattern level high, and detect returns is_phishing true.
C15_SuspiciousTextIsHigh ==
    verdict # <<>> /\ verdict[1].text = [convertible |-> TRUE, words |-> SuspiciousText]
        /\ threshold = DefaultThreshold =>
        /\ detect_with_patterns(SuspiciousText).score >= 70
        /\ detect_with_patterns(SuspiciousText).risk_level = "high"
        /\ verdict[1].result.is_phishing


----------------------------------------------------------------------------
(* EmotionAnalyzer.  The emotions and the keywords stand for the Korean    *)
(* words of the source:                                                    *)
(*   emotions  joy 기쁨, sadness 슬픔, rage 분노, anxious 불안, gloomy 우울,  *)
(*             peaceful 평온; of emotion_categories also happiness 행복,     *)
(*             satisfaction 만족, interest 흥미, expectation 기대, love 사랑, *)
(*             fear 공포, despair 절망, disappointment 실망, indifference     *)
(*             무관심, focus 집중, still 고요                                 *)
(*   keywords  good 좋아, glad 기쁘, happiness 행복, laugh 웃, excited 신나,  *)
(*             pleasant 즐겁, fun 재밌, sad 슬퍼, gloomy 우울, tears 눈물,    *)
(*             cry 울, upset 속상, heartache 마음이 아프, painful 고통스럽,   *)
(*             angry 화나, annoyance 짜증, fuming 열받, rage 분노,            *)
(*             get_angry 화가 나, annoyed 짜증나, going_mad 미치겠,           *)
(*             worry 걱정, anxious 불안, restless 초조, afraid 두렵,          *)
(*             scary 무섭, trembling 떨려, tense 긴장, meaningless 의미 없,   *)
(*             empty 공허, futile 허무, hate_living 살기 싫, despair 절망,    *)
(*             hopeless 희망이 없, peaceful 평온, still 고요, composed 침착,  *)
(*             sedate 차분, comfortable 편안, steady 안정                    *)
(*   modifiers very_much 매우, really 정말, too 너무, hugely 엄청,            *)
(*             greatly 굉장히, a_little 조금, slightly 약간, a_touch 살짝,    *)
(*             somewhat 다소                                                *)
(*   negations no 아니, not 않, none 없, dont 말, cannot 못                   *)
(*   words     am_happy 행복해요, like_it 좋아요, dont_like 좋아하지 않아요,  *)
(*             am_gloomy 우울해요, too_gloomy 너무우울해요, am_sad 슬퍼요,    *)
(*             am_angry 화나요, am_calm 평온해요, is_not 않아요,              *)
(*             market_trip 오늘 아침에는 시장에 가서 과일하고 채소를 샀어요    *)
(* An accumulated score is kept in thousandths (1.0 is 1000), a normalised *)
(* score and a confidence as the fraction num / den.                       *)

ContextWidth == 20
MinAnalyzedLen == 3
MaxKeywords == 5

default_patterns ==
    [emotions |->
        <<[emotion |-> "joy",
           keywords |-> <<"good", "glad", "happiness", "laugh", "excited",
                          "pleasant", "fun">>],
          [emotion |-> "sadness",
           keywords |-> <<"sad", "gloomy", "tears", "cry", "upset", "heartache",
                          "painful">>],
          [emotion |-> "rage",
           keywords |-> <<"angry", "annoyance", "fuming", "rage", "get_angry",
                          "annoyed", "going_mad">>],
          [emotion |-> "anxious",
           keywords |-> <<"worry", "anxious", "restless", "afraid", "scary",
                          "trembling", "tense">>],
          [emotion |-> "gloomy",
           keywords |-> <<"gloomy", "meaningless", "empty", "futile",
                          "hate_living", "despair", "hopeless">>],
          [emotion |-> "peaceful",
           keywords |-> <<"peaceful", "still", "composed", "sedate",
                          "comfortable", "steady">>]>>,
     intensity_modifiers |->
        [high |-> <<"very_much", "really", "too", "hugely", "greatly">>,
         low |-> <<"a_little", "slightly", "a_touch", "somewhat">>],
     negation_words |-> <<"no", "not", "none", "dont", "cannot">>]

emotion_categories ==
    [positive |-> {"joy", "happiness", "satisfaction", "interest", "expectation",
                   "love"},
     negative |-> {"sadness", "rage", "anxious", "fear", "gloomy", "despair",
                   "disappointment"},
     neutral |-> {"peaceful", "indifference", "focus", "still"}]

\* the top-level keys analyze_text reads of self.patterns
EmotionKeys ==
    {"emotions", "intensity_modifiers.high", "intensity_modifiers.low",
     "negation_words"}

\* self.patterns when it is the built-in lexicon
DefaultEmotionLexicon == [keys |-> EmotionKeys]

\* \w: every character but the blank and the punctuation marks
IsWordChar(c) == c \notin {" ", ".", ",", "!", "?"}

\* re.finditer(r'\b' + keyword + r'\w*\b', text.lower()): the start of each
\* match; a keyword begins and ends with a word character, so a match begins
\* where the keyword stands at the start of a word and runs to the end of the
\* word the keyword ends in
Matches(keyword, chars) ==
    {i \in Occurrences(Spelling[keyword], chars) :
        i = 1 \/ ~IsWordChar(chars[i - 1])}

\* match.end(): the last character of the match
MatchEnd(keyword, chars, i) ==
    LET after == i + Len(Spelling[keyword])
    IN  CHOOSE j \in (after - 1)..Len(chars) :
            /\ \A k \in after..j : IsWordChar(chars[k])
            /\ j = Len(chars) \/ ~IsWordChar(chars[j + 1])

\* text[context_start:context_end].lower()
Context(chars, i, e) ==
    SubSeq(chars, Max(1, i - ContextWidth), Min(Len(chars), e + ContextWidth))

\* some word of the list is a substring of the context
AnyIn(words, context) ==
    \E k \in 1..Len(words) : Occurrences(Spelling[words[k]], context) # {}

\* the score of one match: 1.0, times 1.5, times 0.7, times -0.5
MatchScore(context) ==
    (1000 * (IF AnyIn(default_patterns.intensity_modifiers.high, context) THEN 3 ELSE 2)
          * (IF AnyIn(default_patterns.intensity_modifiers.low, context) THEN 7 ELSE 10)
          * (IF AnyIn(default_patterns.negation_words, context) THEN -1 ELSE 2))
        \div 40

RECURSIVE SumOver(_, _, _)
SumOver(keyword, chars, starts) ==
    IF starts = {} THEN 0
    ELSE LET i == CHOOSE s \in starts : TRUE
         IN  MatchScore(Context(chars, i, MatchEnd(keyword, chars, i)))
             + SumOver(keyword, chars, starts \ {i})

\* emotion_scores[emotion] after the loops over its keywords and their matches
RECURSIVE Accumulated(_, _)
Accumulated(keywords, chars) ==
    IF keywords = <<>> THEN 0
    ELSE SumOver(keywords[1], chars, Matches(keywords[1], chars))
         + Accumulated(Tail(keywords), chars)

Abs(x) == IF x < 0 THEN -x ELSE x

RECURSIVE SumSeq(_)
SumSeq(s) == IF s = <<>> THEN 0 ELSE s[1] + SumSeq(Tail(s))

\* variant: the score of a category is normalised with its sign
Signed(x) == x

Magnitude(x) == Abs(x)

\* the keywords re.search finds in the text
FoundKeywords(chars) ==
    {kw \in UNION {{e.keywords[k] : k \in 1..Len(e.keywords)} :
                   e \in {default_patterns.emotions[n] :
                          n \in 1..Len(default_patterns.emotions)}} :
        Matches(kw, chars) # {}}

\* list(set(keywords))[:5]: the order of a set of strings is that of their
\* hashes, which differ from run to run; any five of the keywords may be kept
KeywordChoices(words) ==
    LET found == FoundKeywords(Lower(Chars(words)))
    IN  IF Cardinality(found) <= MaxKeywords THEN {found}
        ELSE {s \in SUBSET found : Cardinality(s) = MaxKeywords}

Zero == [num |-> 0, den |-> 1]

\* a lookup of self.patterns that raises KeyError
KeyErrorIn(lexicon, words) ==
    LET chars == Lower(Chars(words))
    IN  \/ "emotions" \notin lexicon.keys
        \/ /\ FoundKeywords(chars) # {}
           /\ \/ "intensity_modifiers.high" \notin lexicon.keys
              \/ "intensity_modifiers.low" \notin lexicon.keys
              \/ "negation_words" \notin lexicon.keys

\* variant: only a text of fewer than two characters is too short
TooShortBelowTwo(words) == TextLen(words) < MinAnalyzedLen - 1

\* not text or len(text) < 3
TooShort(words) == TextLen(words) < MinAnalyzedLen

analyze_text(lexicon, words, keywords) ==
    IF TooShort(words)
    THEN [dominant_emotion |-> "unknown", emotion_scores |-> <<>>,
          emotion_category |-> "unknown", confidence |-> Zero]
    ELSE IF KeyErrorIn(lexicon, words) THEN [raised |-> "KeyError"]
    ELSE
    LET chars == Lower(Chars(words))
        emotions == default_patterns.emotions
        scores == [n \in 1..Len(emotions) |-> Accumulated(emotions[n].keywords, chars)]
        sizes == [n \in 1..Len(emotions) |-> Magnitude(scores[n])]
        total_score == SumSeq([n \in 1..Len(emotions) |-> Abs(scores[n])])
        \* max(normalized_scores, key=normalized_scores.get): the first of the largest
        first == CHOOSE n \in 1..Len(emotions) :
                    /\ \A m \in 1..Len(emotions) : sizes[m] <= sizes[n]
                    /\ \A m \in 1..(n - 1) : sizes[m] < sizes[n]
        \* scores_list[1]
        second == CHOOSE v \in {sizes[m] : m \in 1..Len(emotions) \ {first}} :
                    \A m \in 1..Len(emotions) \ {first} : sizes[m] <= v
        dominant_emotion == IF total_score > 0 THEN emotions[first].emotion ELSE "neutral"
        confidence ==
            IF total_score > 0 /\ Len(emotions) > 1 /\ second > 0
            THEN [num |-> sizes[first] - second, den |-> sizes[first]]
            ELSE IF total_score > 0 THEN [num |-> sizes[first], den |-> total_score]
            ELSE Zero
    IN  [dominant_emotion |-> dominant_emotion,
         emotion_category |->
            IF dominant_emotion \in emotion_categories.positive THEN "positive"
            ELSE IF dominant_emotion \in emotion_categories.negative THEN "negative"
            ELSE "neutral",
         emotion_scores |->
            [e \in {emotions[n].emotion : n \in 1..Len(emotions)} |->
                LET n == CHOOSE m \in 1..Len(emotions) : emotions[m].emotion = e
                IN  IF total_score > 0 THEN [num |-> sizes[n], den |-> total_score]
                    ELSE Zero],
         \* min(confidence, 1.0)
         confidence |-> IF confidence.num > confidence.den THEN [num |-> 1, den |-> 1]
                        ELSE confidence,
         keywords |-> keywords]


\* conversation_history[i] for i in range(0, len(conversation_history), 2)
UserMessages(conversation_history) ==
    [k \in 1..((Len(conversation_history) + 1) \div 2) |-> conversation_history[2 * k - 1]]

\* emotion_values: positive 1, negative -1, anything else 0
EmotionValue(category) ==
    CASE category = "positive" -> 1
      [] category = "negative" -> -1
      [] OTHER -> 0

\* the least-squares slope of y over x = 0 .. n-1 is Sxy / Sxx
Sxy(y) ==
    Len(y) * SumSeq([k \in 1..Len(y) |-> (k - 1) * y[k]])
        - SumSeq([k \in 1..Len(y) |-> k - 1]) * SumSeq(y)

Sxx(y) ==
    Len(y) * SumSeq([k \in 1..Len(y) |-> (k - 1) * (k - 1)])
        - SumSeq([k \in 1..Len(y) |-> k - 1]) * SumSeq([k \in 1..Len(y) |-> k - 1])

\* np.polyfit(x, y, 1)[0] is the slope as the floating-point solver of the
\* numpy build rounds it: where the slope is exactly 0.1 or -0.1 the result
\* is the nearest double ("exact"), or a double just below or just above it
PolyfitRoundings(y) ==
    IF Len(y) > 2 /\ (10 * Sxy(y) = Sxx(y) \/ 10 * Sxy(y) = -Sxx(y))
    THEN {"below", "exact", "above"}
    ELSE {"exact"}

\* slope > 0.1
SlopeAbove(y, rounding) ==
    \/ 10 * Sxy(y) > Sxx(y)
    \/ 10 * Sxy(y) = Sxx(y) /\ rounding = "above"

\* slope < -0.1
SlopeBelow(y, rounding) ==
    \/ 10 * Sxy(y) < -Sxx(y)
    \/ 10 * Sxy(y) = -Sxx(y) /\ rounding = "below"

Trend(y, rounding) ==
    IF Len(y) > 2
    THEN IF SlopeAbove(y, rounding) THEN "improving"
         ELSE IF SlopeBelow(y, rounding) THEN "worsening"
         ELSE "stable"
    ELSE "stable"

\* the summary of the per-message results: lines 217-265
Summary(emotion_results, rounding) ==
    LET categories == [k \in 1..Len(emotion_results) |->
                          emotion_results[k].emotion_category]
        present == {categories[k] : k \in 1..Len(categories)}
        emotion_counts ==
            [c \in present |-> Cardinality({k \in 1..Len(categories) : categories[k] = c})]
        inserted ==
            [c \in present |-> CHOOSE k \in 1..Len(categories) :
                                  categories[k] = c /\ \A j \in 1..(k - 1) : categories[j] # c]
        \* max(emotion_distribution, key=emotion_distribution.get): the first
        \* inserted of the most frequent categories
        overall_emotion ==
            CHOOSE c \in present :
                \A d \in present :
                    \/ emotion_counts[d] < emotion_counts[c]
                    \/ emotion_counts[d] = emotion_counts[c] /\ inserted[c] <= inserted[d]
    IN  [overall_emotion |-> overall_emotion,
         emotion_trend |->
            Trend([k \in 1..Len(categories) |-> EmotionValue(categories[k])], rounding),
         emotion_distribution |->
            [c \in present |-> [num |-> emotion_counts[c], den |-> Len(categories)]],
         emotion_scores_by_message |-> emotion_results]

\* keywords holds, for each analysed message, the keywords kept of it
analyze_conversation(lexicon, conversation_history, keywords, rounding) ==
    LET user_messages == UserMessages(conversation_history)
        emotion_results ==
            [k \in 1..Len(user_messages) |->
                analyze_text(lexicon, user_messages[k], keywords[k])]
    IN  IF user_messages = <<>>
        THEN [overall_emotion |-> "neutral", emotion_trend |-> "stable",
              emotion_distribution |-> [c \in {"neutral"} |-> [num |-> 1, den |-> 1]],
              emotion_scores_by_message |-> <<>>]
        ELSE IF \E k \in 1..Len(user_messages) : "raised" \in DOMAIN emotion_results[k]
        THEN [raised |-> "KeyError"]
        ELSE Summary(emotion_results, rounding)

----------------------------------------------------------------------------
(* The texts and the transcripts the analyzer is called with *)

MaxWords == 3
MaxTurns == 7

EmotionWords ==
    {"am_happy", "like_it", "dont_like", "am_gloomy", "am_sad", "am_calm",
     "really", "a_little", "market_trip", "yes"}

RECURSIVE WordLists(_, _)
WordLists(words, n) ==
    IF n = 0 THEN {<<>>}
    ELSE LET shorter == WordLists(words, n - 1)
         IN  shorter \cup {Append(s, w) : s \in {t \in shorter : Len(t) = n - 1},
                                          w \in words}

EmotionTexts ==
    WordLists(EmotionWords, MaxWords)
    \cup {<<"too_gloomy">>,
          <<"too", "am_gloomy">>,
          <<"like_it", "market_trip", "dont_like", "dont_like">>,
          <<"like_it", "am_happy", "am_gloomy", "am_sad", "am_calm", "am_angry">>}

Messages == {<<"am_happy">>, <<"am_sad">>, <<"hello">>, <<"yes">>}

\* the entries between the analysed ones
OtherTurns == {<<"am_happy">>, <<"am_sad">>}

Transcripts ==
    {history \in WordLists(Messages, MaxTurns) :
        \A i \in 1..Len(history) : i % 2 = 0 => history[i] \in OtherTurns}

\* for each message the keywords that may be kept of it
RECURSIVE ChoiceSeqs(_)
ChoiceSeqs(messages) ==
    IF messages = <<>> THEN {<<>>}
    ELSE {<<k>> \o rest : k \in KeywordChoices(messages[1]),
                          rest \in ChoiceSeqs(Tail(messages))}

\* the categories of the analysed turns, as numbers
TurnValues(conversation_history) ==
    LET user_messages == UserMessages(conversation_history)
    IN  [k \in 1..Len(user_messages) |->
            EmotionValue(analyze_text(DefaultEmotionLexicon, user_messages[k],
                                      {}).emotion_category)]

\* a call the analyzer is about to get
TextCall(text) == <<[call |-> "analyze_text", text |-> text]>>

ConversationCall(conversation_history) ==
    <<[call |-> "analyze_conversation", conversation_history |-> conversation_history]>>

Called(name) ==
    analysis # <<>> /\ analysis[1].call = name /\ "result" \notin DOMAIN analysis[1]

Returned(name) ==
    analysis # <<>> /\ analysis[1].call = name /\ "result" \in DOMAIN analysis[1]

InitEmotion ==
    /\ now = StartTick
    /\ emotionFiles = [d \in Dates |-> <<>>]
    /\ pending = <<>>
    /\ alertFiles = [d \in Dates |-> NoFile]
    /\ pc = "idle"
    /\ alerts = <<>>
    /\ lastCall = "none"
    /\ returned = <<>>
    /\ risk = <<>>
    /\ threshold = DefaultThreshold
    /\ verdict = <<>>
    /\ configFiles = <<>>
    /\ lexicons = [emotion |-> DefaultEmotionLexicon]
    /\ \/ \E text \in EmotionTexts : analysis = TextCall(text)
       \/ \E history \in Transcripts : analysis = ConversationCall(history)
    /\ Elsewhere

\* self.emotion_analyzer.analyze_text(user_input)
AnalyzeText ==
    /\ lexicons # <<>>
    /\ Called("analyze_text")
    /\ \E keywords \in KeywordChoices(analysis[1].text) :
         analysis' = <<[call |-> "analyze_text", text |-> analysis[1].text,
                        result |-> analyze_text(lexicons.emotion, analysis[1].text,
                                                keywords)]>>
    /\ UNCHANGED <<now, emotionFiles, alertFiles, pc, alerts, lastCall, returned,
                   pending, risk, threshold, verdict, configFiles, lexicons>>
    /\ UNCHANGED <<dayFile, threads, chatHistory, report>>

\* analyzer.analyze_conversation(conversation)
AnalyzeConversation ==
    /\ Called("analyze_conversation")
    /\ LET history == analysis[1].conversation_history
       IN  \E keywords \in ChoiceSeqs(UserMessages(history)) :
             \E rounding \in PolyfitRoundings(TurnValues(history)) :
                analysis' = <<[call |-> "analyze_conversation",
                               conversation_history |-> history,
                               rounding |-> rounding,
                               result |-> analyze_conversation(lexicons.emotion, history,
                                                               keywords, rounding)]>>
    /\ UNCHANGED <<now, emotionFiles, alertFiles, pc, alerts, lastCall, returned,
                   pending, risk, threshold, verdict, configFiles, lexicons>>
    /\ UNCHANGED <<dayFile, threads, chatHistory, report>>

NextEmotion == AnalyzeText \/ AnalyzeConversation

SpecEmotion == InitEmotion /\ [][NextEmotion]_vars


----------------------------------------------------------------------------
(* The lexicon files.  A file is absent, unreadable (it cannot be opened   *)
(* or is not JSON), or present; a present file holds, for each top-level   *)
(* key it has, the entries of the built-in lexicon.                        *)

PhishingKeys == {"high_risk", "medium_risk", "low_risk"}

AbsentFile == [state |-> "absent", keys |-> {}]
UnreadableFile == [state |-> "unreadable", keys |-> {}]
FileWith(keys) == [state |-> "present", keys |-> keys]

EmotionConfigs ==
    {AbsentFile, UnreadableFile} \cup {FileWith(keys) : keys \in SUBSET EmotionKeys}

PhishingConfigs ==
    {AbsentFile, UnreadableFile} \cup {FileWith(keys) : keys \in SUBSET PhishingKeys}

\* a file that is there and parses is returned as it is
_load_emotion_patterns(file) ==
    IF file.state = "present" THEN [keys |-> file.keys] ELSE DefaultEmotionLexicon

\* the built-in lexicon is written where no file was found
_save_default_patterns(file, outcome) ==
    IF file.state = "absent" /\ outcome = "saved" THEN FileWith(EmotionKeys) ELSE file

_load_patterns(file) ==
    IF file.state = "present" /\ PhishingKeys \subseteq file.keys
    THEN [keys |-> file.keys]
    ELSE [keys |-> PhishingKeys]

\* a call the pattern scorer is about to get
PatternCall(text) == <<[call |-> "detect_with_patterns", text |-> text]>>

LexiconTexts == {<<"am_happy">>, <<"really", "am_gloomy">>, <<"hello">>, <<"yes">>}

PatternTexts == {<<"OTP", "remit">>, <<"hello">>, <<"yes">>, SuspiciousText}

InitLexicon ==
    /\ now = StartTick
    /\ emotionFiles = [d \in Dates |-> <<>>]
    /\ pending = <<>>
    /\ alertFiles = [d \in Dates |-> NoFile]
    /\ pc = "idle"
    /\ alerts = <<>>
    /\ lastCall = "none"
    /\ returned = <<>>
    /\ risk = <<>>
    /\ threshold = DefaultThreshold
    /\ verdict = <<>>
    /\ \E emotion \in EmotionConfigs : \E phishing \in PhishingConfigs :
         configFiles = [emotion |-> emotion, phishing |-> phishing]
    /\ lexicons = <<>>
    /\ \/ \E text \in LexiconTexts : analysis = TextCall(text)
       \/ \E text \in PatternTexts : analysis = PatternCall(text)
    /\ Elsewhere

\* BokdoriAI.__init__: PhishingDetector(self.config), EmotionAnalyzer(self.config)
Construct ==
    /\ lexicons = <<>>
    /\ lexicons' = [emotion |-> _load_emotion_patterns(configFiles.emotion),
                    phishing |-> _load_patterns(configFiles.phishing),
                    found |-> configFiles]
    /\ \E outcome \in {"saved", "failed"} :
         configFiles' = [configFiles EXCEPT
                            !.emotion = _save_default_patterns(@, outcome)]
    /\ UNCHANGED <<now, emotionFiles, alertFiles, pc, alerts, lastCall, returned,
                   pending, risk, threshold, verdict, analysis>>
    /\ UNCHANGED <<dayFile, threads, chatHistory, report>>

\* detector.detect_with_patterns(text)
DetectWithPatterns ==
    /\ lexicons # <<>>
    /\ Called("detect_with_patterns")
    /\ analysis' = <<[call |-> "detect_with_patterns", text |-> analysis[1].text,
                      result |-> detect_with_patterns(analysis[1].text)]>>
    /\ UNCHANGED <<now, emotionFiles, alertFiles, pc, alerts, lastCall, returned,
                   pending, risk, threshold, verdict, configFiles, lexicons>>
    /\ UNCHANGED <<dayFile, threads, chatHistory, report>>

NextLexicon == Construct \/ AnalyzeText \/ DetectWithPatterns

SpecLexicon == InitLexicon /\ [][NextLexicon]_vars

----------------------------------------------------------------------------
(* process_message: the utterance is analysed and the result is logged.    *)
(* json.dump and json.load keep a string, a number, a list and None as     *)
(* they are, so a day file holds what was put into the entry; LogEntry     *)
(* gives the part of the entry the trend monitor and the alert manager     *)
(* read (cat is its emotion_category), log_entry adds the other fields.    *)

MaxLogged == 3

\* emotion_result.get(key, default)
Get(emotion_result, key, default) ==
    IF key \in DOMAIN emotion_result THEN emotion_result[key] ELSE default

\* variant: the entry holds the scores as well
log_entry_with_scores(file, t, text, emotion_result) ==
    LogEntry(file, t, Get(emotion_result, "emotion_category", "None"))
    @@ [text |-> text,
        dominant_emotion |-> Get(emotion_result, "dominant_emotion", "None"),
        emotion_scores |-> Get(emotion_result, "emotion_scores", "None"),
        confidence |-> Get(emotion_result, "confidence", "None"),
        keywords |-> Get(emotion_result, "keywords", {})]

log_entry(file, t, text, emotion_result) ==
    LogEntry(file, t, Get(emotion_result, "emotion_category", "None"))
    @@ [text |-> text,
        dominant_emotion |-> Get(emotion_result, "dominant_emotion", "None"),
        confidence |-> Get(emotion_result, "confidence", "None"),
        keywords |-> Get(emotion_result, "keywords", {})]

\* Logger.log_emotion(text, emotion_result)
log_emotion_result(files, t, text, emotion_result) ==
    [files EXCEPT ![DateOf(t)] = Append(@, log_entry(@, t, text, emotion_result))]

LoggedTexts ==
    {<<"am_happy">>, <<"am_sad">>, <<"hello">>, <<"yes">>, <<"really", "am_gloomy">>}

InitLog ==
    /\ now = StartTick
    /\ emotionFiles = [d \in Dates |-> <<>>]
    /\ pending = <<>>
    /\ alertFiles = [d \in Dates |-> NoFile]
    /\ pc = "idle"
    /\ alerts = <<>>
    /\ lastCall = "none"
    /\ returned = <<>>
    /\ risk = <<>>
    /\ threshold = DefaultThreshold
    /\ verdict = <<>>
    /\ configFiles = <<>>
    /\ lexicons = [emotion |-> DefaultEmotionLexicon]
    /\ analysis = <<>>
    /\ Elsewhere

\* process_message: analyze_text(user_input), then log_emotion(user_input, emotion_result)
ProcessMessage ==
    /\ pc = "idle"
    /\ Len(emotionFiles[DateOf(now)]) < MaxLogged
    /\ \E text \in LoggedTexts : \E keywords \in KeywordChoices(text) :
         LET emotion_result == analyze_text(lexicons.emotion, text, keywords)
         IN  /\ analysis' = <<[call |-> "analyze_text", text |-> text,
                               result |-> emotion_result]>>
             /\ emotionFiles' = log_emotion_result(emotionFiles, now, text, emotion_result)
    /\ lastCall' = "none"
    /\ returned' = <<>>
    /\ UNCHANGED <<now, alertFiles, pc, alerts, pending>>
    /\ UNCHANGED <<risk, threshold, verdict, configFiles, lexicons>>
    /\ UNCHANGED <<dayFile, threads, chatHistory, report>>

NextLog == ProcessMessage \/ CheckEmotionChange

SpecLog == InitLog /\ [][NextLog]_vars

----------------------------------------------------------------------------
(* EmotionTrendMonitor.generate_weekly_report.  A ratio is kept exact, as  *)
(* a numerator and a denominator.                                          *)

ReportWindowDays == 7
TopKeywordCount == 10

RECURSIVE GCD(_, _)
GCD(a, b) == IF b = 0 THEN a ELSE GCD(b, a % b)

\* a fraction in lowest terms
Fraction(num, den) == [num |-> num \div GCD(num, den), den |-> den \div GCD(num, den)]

\* sum(stats[ratio] for stats in daily_stats.values())
RECURSIVE SumRatios(_, _, _)
SumRatios(daily_stats, dates, cat) ==
    IF dates = {} THEN [num |-> 0, den |-> 1]
    ELSE LET d == CHOOSE e \in dates : TRUE
             rest == SumRatios(daily_stats, dates \ {d}, cat)
         IN  Fraction(rest.num * daily_stats[d].total + daily_stats[d][cat] * rest.den,
                      rest.den * daily_stats[d].total)

\* ... / len(daily_stats) if daily_stats else 0
MeanRatio(daily_stats, cat) ==
    LET sum == SumRatios(daily_stats, DOMAIN daily_stats, cat)
    IN  IF DOMAIN daily_stats = {} THEN [num |-> 0, den |-> 1]
        ELSE Fraction(sum.num, sum.den * Cardinality(DOMAIN daily_stats))

RatioLess(a, b) == a.num * b.den < b.num * a.den

\* max(["positive", "negative", "neutral"], key=...): the first of the largest
FirstLargest(positive_ratio, negative_ratio, neutral_ratio) ==
    IF ~RatioLess(positive_ratio, negative_ratio) /\ ~RatioLess(positive_ratio, neutral_ratio)
    THEN "positive"
    ELSE IF ~RatioLess(negative_ratio, neutral_ratio) THEN "negative"
    ELSE "neutral"

\* keyword_counts: the keywords of the logs and the number of records with each
KeywordsOf(log) == IF "keywords" \in DOMAIN log THEN log.keywords ELSE {}

keyword_counts(logs) ==
    [k \in UNION {KeywordsOf(logs[i]) : i \in 1..Len(logs)} |->
        Cardinality({i \in 1..Len(logs) : k \in KeywordsOf(logs[i])})]

\* the record a keyword is first seen in
FirstSeen(logs, k) == CHOOSE i \in 1..Len(logs) :
    k \in KeywordsOf(logs[i]) /\ \A j \in 1..(i - 1) : k \notin KeywordsOf(logs[j])

\* sorted(keyword_counts.items(), key=count, reverse=True)[:10]: the sort is
\* stable, so of two keywords with one count the one seen first comes first
top_keywords(logs) ==
    LET counts == keyword_counts(logs)
        Ahead(j, k) == \/ counts[j] > counts[k]
                       \/ counts[j] = counts[k] /\ FirstSeen(logs, j) < FirstSeen(logs, k)
        kept == {k \in DOMAIN counts :
                    Cardinality({j \in DOMAIN counts : Ahead(j, k)}) < TopKeywordCount}
    IN  [k \in kept |-> counts[k]]

\* the names locals() holds inside a lambda with the parameter x
LambdaLocals == {"x"}

\* variant: the names of the enclosing function are looked up
FunctionLocals ==
    {"self", "logs", "daily_stats", "keyword_counts", "top_keywords",
     "positive_ratio", "negative_ratio", "neutral_ratio"}

\* locals()[f"{x}_ratio"] for x = "positive", the first key max() computes
KeyLookup == LambdaLocals

generate_weekly_report(files, t) ==
    LET logs == load_emotion_logs(files, t, ReportWindowDays)
        daily_stats == calculate_daily_emotions(logs)
        positive_ratio == MeanRatio(daily_stats, "positive")
        negative_ratio == MeanRatio(daily_stats, "negative")
        neutral_ratio == MeanRatio(daily_stats, "neutral")
    IN  IF "positive_ratio" \notin KeyLookup THEN [raised |-> "KeyError"]
        ELSE [overall_stats |->
                 [positive_ratio |-> positive_ratio,
                  negative_ratio |-> negative_ratio,
                  neutral_ratio |-> neutral_ratio,
                  dominant_emotion |->
                      FirstLargest(positive_ratio, negative_ratio, neutral_ratio)],
              daily_stats |-> daily_stats,
              top_keywords |-> top_keywords(logs),
              depression_risk |->
                  detect_depression_risk(files, t, DepressionWindowDays,
                                         DepressionThresholdPct)]

\* the week's day files: a week of days of the usual kinds, with keywords
KeywordOfKind == [positive |-> "good", negative |-> "sad", neutral |-> "still",
                  unknown |-> "none"]

WithKeywords(files) ==
    [d \in Dates |->
        [i \in 1..Len(files[d]) |->
            files[d][i] @@ [keywords |-> IF files[d][i].cat = "unknown" THEN {}
                                         ELSE {KeywordOfKind[files[d][i].cat]}]]]

InitReport ==
    /\ now = StartTick
    /\ \E week \in Weeks :
         emotionFiles = WithKeywords(LogAll([d \in Dates |-> <<>>],
                                            WeekUtterances(week, 0)))
    /\ pending = <<>>
    /\ alertFiles = [d \in Dates |-> NoFile]
    /\ pc = "idle"
    /\ alerts = <<>>
    /\ lastCall = "none"
    /\ returned = <<>>
    /\ risk = <<>>
    /\ threshold = DefaultThreshold
    /\ verdict = <<>>
    /\ configFiles = <<>>
    /\ lexicons = <<>>
    /\ analysis = <<>>
    /\ dayFile = <<>>
    /\ threads = <<>>
    /\ chatHistory = <<>>
    /\ report = <<>>

\* monitor.generate_weekly_report()
GenerateWeeklyReport ==
    /\ report' = <<generate_weekly_report(emotionFiles, now)>>
    /\ UNCHANGED <<now, emotionFiles, alertFiles, pc, alerts, lastCall, returned,
                   pending, risk, threshold, verdict, configFiles, lexicons, analysis>>
    /\ UNCHANGED <<dayFile, threads, chatHistory>>

NextReport == GenerateWeeklyReport

SpecReport == InitReport /\ [][NextReport]_vars

----------------------------------------------------------------------------
(* The text of a day file.  json.dump(logs, f, indent=2) writes an array,  *)
(* one value to a line; the fallback of log_emotion appends one entry to a *)
(* line at the end of whatever the file holds.  A text is                  *)
(*   head    "absent": no file; "empty": no character; "array": the array  *)
(*           json.dump wrote; "undecodable": bytes that are not UTF-8;     *)
(*           "garbled": an array followed by the rest of a longer text     *)
(*   records the entries of the array                                      *)
(*   lines   the entries appended after the head, a line each              *)
(* An entry is an object (a record) or a string, [string |-> s].           *)

MaxCalls == 3

AbsentText == [head |-> "absent", records |-> <<>>, lines |-> <<>>]
EmptyText == [head |-> "empty", records |-> <<>>, lines |-> <<>>]
UndecodableText == [head |-> "undecodable", records |-> <<>>, lines |-> <<>>]
ArrayText(records) == [head |-> "array", records |-> records, lines |-> <<>>]
GarbledText(records) == [head |-> "garbled", records |-> records, lines |-> <<>>]

IsObject(entry) == "string" \notin DOMAIN entry

\* the lines of an array's text that are JSON values by themselves: the last
\* keyword of an object ("keywords": [ ..., "k" ] ends with the line "k") and
\* a string that is the last value of the array; every other line holds a
\* bracket, a key or a trailing comma
StrayOf(entry, last) ==
    IF ~IsObject(entry) THEN (IF last THEN <<entry>> ELSE <<>>)
    ELSE IF KeywordsOf(entry) = {} THEN <<>>
    ELSE <<[string |-> CHOOSE k \in KeywordsOf(entry) : TRUE]>>

RECURSIVE StrayStrings(_)
StrayStrings(records) ==
    IF records = <<>> THEN <<>>
    ELSE StrayOf(records[1], Len(records) = 1) \o StrayStrings(Tail(records))

\* json.loads(line) of each line, the lines that fail left out; the first
\* appended line follows the closing bracket of the array on its line
ParsedLines(file) ==
    IF file.head \in {"array", "garbled"}
    THEN StrayStrings(file.records) \o Tail(file.lines)
    ELSE file.lines

\* json.load / json.loads of the whole text succeeds
Parses(file) ==
    \/ file.head = "array" /\ file.lines = <<>>
    \/ file.head = "empty" /\ Len(file.lines) = 1

\* the value parsed, a value that is not a list put into one
ParsedList(file) == IF file.head = "array" THEN file.records ELSE file.lines

\* log_emotion, lines 137-157: the list `logs`, or the read raising
ReadLogs(file) ==
    IF file.head = "absent" THEN [raised |-> FALSE, logs |-> <<>>]
    ELSE IF file.head = "undecodable" THEN [raised |-> TRUE, logs |-> <<>>]
    ELSE IF file.head = "empty" /\ file.lines = <<>> THEN [raised |-> FALSE, logs |-> <<>>]
    ELSE IF Parses(file) THEN [raised |-> FALSE, logs |-> ParsedList(file)]
    ELSE [raised |-> FALSE, logs |-> ParsedLines(file)]

\* _save_alert, lines 201-211: the list `alerts`, or the read raising
ReadAlerts(file) ==
    IF file.head = "absent" THEN [raised |-> FALSE, logs |-> <<>>]
    ELSE IF file.head = "undecodable" THEN [raised |-> TRUE, logs |-> <<>>]
    ELSE IF Parses(file) THEN [raised |-> FALSE, logs |-> ParsedList(file)]
    ELSE [raised |-> FALSE, logs |-> <<>>]

\* open(file_path, 'a') and write of the entry and a newline
Appended(file, entry) ==
    IF file.head = "absent" THEN [EmptyText EXCEPT !.lines = <<entry>>]
    ELSE [file EXCEPT !.lines = Append(@, entry)]

FallbackOutcomes == {"appended", "failed"}

\* Logger.log_emotion on the text of the day file: the text it leaves and
\* the boolean it returns.  main is the outcome of the rewrite, fallback
\* that of the append tried when the rewrite raised.
log_emotion_text(file, entry, main, fallback) ==
    LET read == ReadLogs(file)
        left == IF read.raised \/ main = "failed_before_write" THEN file ELSE EmptyText
    IN  IF ~read.raised /\ main = "saved"
        THEN [file |-> ArrayText(Append(read.logs, entry)), result |-> TRUE]
        ELSE IF fallback = "appended"
        THEN [file |-> Appended(left, entry), result |-> TRUE]
        ELSE [file |-> left, result |-> FALSE]

\* load_emotion_logs, lines 46-57: json.load of the day file, a failure skipped
Loaded(file) == IF Parses(file) THEN ParsedList(file) ELSE <<>>

\* load_emotion_logs of the day: logs.sort(key=lambda x: x.get(...)) raises
\* AttributeError for an entry that is not an object
load_day_logs(file) ==
    IF \E i \in 1..Len(Loaded(file)) : ~IsObject(Loaded(file)[i])
    THEN [raised |-> "AttributeError", logs |-> <<>>]
    ELSE [raised |-> "none", logs |-> SortByTimestamp(Loaded(file))]

FileTexts == {<<"am_happy">>, <<"hello">>}

\* the entry of the k-th utterance of the tick
EntryOf(k, t, text) ==
    [log_entry(<<>>, t, text,
               analyze_text(DefaultEmotionLexicon, text,
                            FoundKeywords(Lower(Chars(text)))))
        EXCEPT !.us = k]

EarlierEntry == EntryOf(0, StartTick, <<"am_happy">>)

DayFilesFound == {AbsentText, ArrayText(<<EarlierEntry>>), UndecodableText}

InitFiles ==
    /\ now = StartTick
    /\ emotionFiles = [d \in Dates |-> <<>>]
    /\ pending = <<>>
    /\ alertFiles = [d \in Dates |-> NoFile]
    /\ pc = "idle"
    /\ alerts = <<>>
    /\ lastCall = "none"
    /\ returned = <<>>
    /\ risk = <<>>
    /\ threshold = DefaultThreshold
    /\ verdict = <<>>
    /\ configFiles = <<>>
    /\ lexicons = [emotion |-> DefaultEmotionLexicon]
    /\ analysis = <<>>
    /\ dayFile \in DayFilesFound
    /\ threads = <<>>
    /\ chatHistory = <<>>
    /\ report = <<>>

\* app_logger.log_emotion(user_input, emotion_result), one call after another
LogEmotionText ==
    /\ Len(threads) < MaxCalls
    /\ \E text \in FileTexts : \E main \in SaveOutcomes : \E fallback \in FallbackOutcomes :
         LET entry == EntryOf(Len(threads) + 1, now, text)
             out == log_emotion_text(dayFile, entry, main, fallback)
         IN  /\ dayFile' = out.file
             /\ threads' = Append(threads, [call |-> "log_emotion", entry |-> entry,
                                            pc |-> "done", logs |-> <<>>,
                                            result |-> out.result])
    /\ UNCHANGED <<now, emotionFiles, alertFiles, pc, alerts, lastCall, returned,
                   pending, risk, threshold, verdict, configFiles, lexicons, analysis>>
    /\ UNCHANGED <<chatHistory, report>>

NextFiles == LogEmotionText

SpecFiles == InitFiles /\ [][NextFiles]_vars

----------------------------------------------------------------------------
(* Two calls that run at the same time against one day file.  Neither      *)
(* log_emotion nor _save_alert takes a lock: a call reads the file, opens  *)
(* it for writing, which empties it, and writes its list from the start of *)
(* the file; the steps of two calls interleave freely.                     *)

Callers == {1, 2}

EarlierAlert ==
    EmotionChangeAlert(StartTick, LogEntry(<<>>, StartTick - 2, "positive"),
                       LogEntry(<<>>, StartTick - 1, "negative"))

NewAlerts ==
    <<DepressionAlert(StartTick),
      EmotionChangeAlert(StartTick, LogEntry(<<>>, StartTick - 1, "negative"),
                         LogEntry(<<>>, StartTick, "positive"))>>

\* the record the day file held before the calls
EarlierOf(call) == IF call = "log_emotion" THEN EarlierEntry ELSE EarlierAlert

Starting(call, entry) ==
    [call |-> call, entry |-> entry, pc |-> "start", logs |-> <<>>, result |-> FALSE]

InitWriters ==
    /\ now = StartTick
    /\ emotionFiles = [d \in Dates |-> <<>>]
    /\ pending = <<>>
    /\ alertFiles = [d \in Dates |-> NoFile]
    /\ pc = "idle"
    /\ alerts = <<>>
    /\ lastCall = "none"
    /\ returned = <<>>
    /\ risk = <<>>
    /\ threshold = DefaultThreshold
    /\ verdict = <<>>
    /\ configFiles = <<>>
    /\ lexicons = [emotion |-> DefaultEmotionLexicon]
    /\ analysis = <<>>
    /\ \/ /\ dayFile = ArrayText(<<EarlierOf("log_emotion")>>)
          /\ \E texts \in [Callers -> FileTexts] :
                threads = [i \in Callers |->
                              Starting("log_emotion", EntryOf(i, now, texts[i]))]
       \/ /\ dayFile = ArrayText(<<EarlierOf("_save_alert")>>)
          /\ threads = [i \in Callers |-> Starting("_save_alert", NewAlerts[i])]
    /\ chatHistory = <<>>
    /\ report = <<>>

\* with open(file_path, 'r') ...: the caller reads the file into its list
ReadDayFile ==
    /\ \E i \in Callers :
         /\ threads[i].pc = "start"
         /\ LET read == IF threads[i].call = "log_emotion" THEN ReadLogs(dayFile)
                        ELSE ReadAlerts(dayFile)
            IN  threads' = [threads EXCEPT ![i].pc = "read", ![i].logs = read.logs]
    /\ UNCHANGED <<now, emotionFiles, alertFiles, pc, alerts, lastCall, returned,
                   pending, risk, threshold, verdict, configFiles, lexicons, analysis>>
    /\ UNCHANGED <<dayFile, chatHistory, report>>

\* logs.append(log_entry); open(file_path, 'w'): the file is emptied
OpenForWriting ==
    /\ \E i \in Callers :
         /\ threads[i].pc = "read"
         /\ threads' = [threads EXCEPT ![i].pc = "opened",
                                       ![i].logs = Append(@, threads[i].entry)]
    /\ dayFile' = EmptyText
    /\ UNCHANGED <<now, emotionFiles, alertFiles, pc, alerts, lastCall, returned,
                   pending, risk, threshold, verdict, configFiles, lexicons, analysis>>
    /\ UNCHANGED <<chatHistory, report>>

\* the texts a dump leaves over what another caller wrote since the file was
\* opened: the dump starts at the beginning of the file and replaces as many
\* characters as it writes; the rest of a longer text stays behind it.  Of
\* two lists with the same number of entries either may be the longer text.
DumpedOver(file, logs) ==
    IF file.head \in {"empty", "absent"} THEN {ArrayText(logs)}
    ELSE IF Len(logs) > Len(file.records) THEN {ArrayText(logs)}
    ELSE IF Len(logs) < Len(file.records) THEN {GarbledText(logs)}
    ELSE {ArrayText(logs), GarbledText(logs)}

\* json.dump(logs, f, ...); return True
Dump ==
    /\ \E i \in Callers :
         /\ threads[i].pc = "opened"
         /\ dayFile' \in DumpedOver(dayFile, threads[i].logs)
         /\ threads' = [threads EXCEPT ![i].pc = "done", ![i].result = TRUE]
    /\ UNCHANGED <<now, emotionFiles, alertFiles, pc, alerts, lastCall, returned,
                   pending, risk, threshold, verdict, configFiles, lexicons, analysis>>
    /\ UNCHANGED <<chatHistory, report>>

NextWriters == ReadDayFile \/ OpenForWriting \/ Dump

SpecWriters == InitWriters /\ [][NextWriters]_vars

----------------------------------------------------------------------------
(* BokdoriAI.process_message and reset_conversation.  An entry of          *)
(* conversation_history is a string; the model keeps with it who appended  *)
(* it.  The phishing log, the emotion log and the conversation log are     *)
(* written by the Logger, which returns False where a write raises; they   *)
(* are the subject of SpecLog and SpecFiles and are left out here.         *)

MaxHistory == 11

\* len(self.conversation_history) % 10 == 0
AlertCheckEvery == 10

RECURSIVE lstrip(_)
lstrip(chars) ==
    IF chars # <<>> /\ chars[1] = " " THEN lstrip(Tail(chars)) ELSE chars

Reversed(chars) == [i \in 1..Len(chars) |-> chars[Len(chars) + 1 - i]]

\* str.strip()
strip(chars) == Reversed(lstrip(Reversed(lstrip(chars))))

\* not user_input or len(user_input.strip()) == 0
IsEmptyInput(words) == Chars(words) = <<>> \/ Len(strip(Chars(words))) = 0

UserInput(words) == [by |-> "user", text |-> words]
Response(kind) == [by |-> "assistant", text |-> <<kind>>]

\* phishing_result.get("is_phishing", False) and level in ["high", "medium"]
WarningDue(phishing_result) ==
    phishing_result.is_phishing /\ phishing_result.risk_level \in {"high", "medium"}

\* self.emotion_analyzer.analyze_text(user_input) raises: the text is long
\* enough to be analysed and a lookup of self.patterns fails
AnalysisRaises(lexicon, words) == ~TooShort(words) /\ KeyErrorIn(lexicon, words)

\* _check_alerts calls check_all_alerts, which has no try of its own:
\* load_emotion_logs raises where a day file holds a value that is not an
\* object (load_day_logs)
CheckOutcomes == {"returned", "raised"}

\* the chain call returns a reply or raises
ChainOutcomes == {"answered", "raised"}

\* variant: the utterance is appended once the analysis has returned, and the
\* alert check runs before the reply is appended
process_message_guarded(history, words, lexicon, phishing_result, chain, check) ==
    IF IsEmptyInput(words) THEN history
    ELSE IF AnalysisRaises(lexicon, words)
    THEN history
    ELSE IF WarningDue(phishing_result)
    THEN history \o <<UserInput(words), Response("warning")>>
    ELSE IF chain = "raised"
            \/ ((Len(history) + 2) % AlertCheckEvery = 0 /\ check = "raised")
    THEN history \o <<UserInput(words), Response("error_response")>>
    ELSE history \o <<UserInput(words), Response("final_response")>>

\* process_message(user_input): the history it leaves.  phishing_result is
\* what detect gave for the input, chain the outcome of the chain call,
\* check that of _check_alerts.
process_message(history, words, lexicon, phishing_result, chain, check) ==
    IF IsEmptyInput(words) THEN history
    \* analyze_text is called outside the try: what it raises leaves the call,
    \* after the utterance was appended
    ELSE IF AnalysisRaises(lexicon, words)
    THEN Append(history, UserInput(words))
    ELSE IF WarningDue(phishing_result)
    THEN history \o <<UserInput(words), Response("warning")>>
    ELSE IF chain = "raised"
    THEN history \o <<UserInput(words), Response("error_response")>>
    \* the alert check runs inside the try, after the reply was appended
    ELSE IF (Len(history) + 2) % AlertCheckEvery = 0 /\ check = "raised"
    THEN history \o <<UserInput(words), Response("final_response"),
                      Response("error_response")>>
    ELSE history \o <<UserInput(words), Response("final_response")>>

ChatConfigs == {AbsentFile, FileWith(EmotionKeys \ {"negation_words"})}

ChatTexts == {<<>>, <<"blank">>, <<"hello">>, <<"am_happy">>, SuspiciousText}

ChatReplies ==
    {[outcome |-> "raises", reply |-> <<>>],
     [outcome |-> "returns", reply |-> <<"probability", ":", " ", "0", ".", "8", "5">>]}

InitChat ==
    /\ now = StartTick
    /\ emotionFiles = [d \in Dates |-> <<>>]
    /\ pending = <<>>
    /\ alertFiles = [d \in Dates |-> NoFile]
    /\ pc = "idle"
    /\ alerts = <<>>
    /\ lastCall = "none"
    /\ returned = <<>>
    /\ risk = <<>>
    /\ threshold = DefaultThreshold
    /\ verdict = <<>>
    /\ \E emotion \in ChatConfigs :
         /\ configFiles = [emotion |-> emotion]
         /\ lexicons = [emotion |-> _load_emotion_patterns(emotion)]
    /\ analysis = <<>>
    /\ Elsewhere

\* self.phishing_detector.detect(user_input) for each text and each reply of
\* the LLM, under the threshold of the configuration
ChatCalls ==
    {[words |-> words,
      phishing_result |-> detect([convertible |-> TRUE, words |-> words], llm,
                                 DefaultThreshold)] :
        <<words, llm>> \in
            {c \in ChatTexts \X (ChatReplies \cup {NotCalled}) :
                c[2] \in (IF LLMCalled([convertible |-> TRUE, words |-> c[1]])
                          THEN ChatReplies ELSE {NotCalled})}}

\* bokdori.process_message(user_input)
ProcessUserInput ==
    /\ Len(chatHistory) < MaxHistory
    /\ threshold = DefaultThreshold
    /\ \E call \in ChatCalls : \E chain \in ChainOutcomes : \E check \in CheckOutcomes :
         chatHistory' = process_message(chatHistory, call.words, lexicons.emotion,
                                        call.phishing_result, chain, check)
    /\ UNCHANGED <<now, emotionFiles, alertFiles, pc, alerts, lastCall, returned,
                   pending, risk, threshold, verdict, configFiles, lexicons, analysis>>
    /\ UNCHANGED <<dayFile, threads, report>>

\* bokdori.reset_conversation()
ResetConversation ==
    /\ chatHistory' = <<>>
    /\ UNCHANGED <<now, emotionFiles, alertFiles, pc, alerts, lastCall, returned,
                   pending, risk, threshold, verdict, configFiles, lexicons, analysis>>
    /\ UNCHANGED <<dayFile, threads, report>>

NextChat == ProcessUserInput \/ ResetConversation

SpecChat == InitChat /\ [][NextChat]_vars

----------------------------------------------------------------------------
(* The claims about the EmotionAnalyzer *)

\* the result of the analyze_text call that returned
TextResult == analysis[1].result

\* the normalised scores in the order of the lexicon: their numerators
Numerators(result) ==
    [n \in 1..Len(default_patterns.emotions) |->
        result.emotion_scores[default_patterns.emotions[n].emotion].num]

\* the scores are the shares |accumulated score| / sum of |accumulated scores|
SharesOfTotal(words, result) ==
    LET chars == Lower(Chars(words))
        emotions == default_patterns.emotions
        sizes == [n \in 1..Len(emotions) |-> Abs(Accumulated(emotions[n].keywords, chars))]
    IN  /\ SumSeq(sizes) > 0
        /\ DOMAIN result.emotion_scores = {emotions[n].emotion : n \in 1..Len(emotions)}
        /\ \A n \in 1..Len(emotions) :
              result.emotion_scores[emotions[n].emotion]
                  = [num |-> sizes[n], den |-> SumSeq(sizes)]
        /\ SumSeq(Numerators(result)) = SumSeq(sizes)

\* no score at all, or every score zero
NoSignal(result) ==
    \A e \in DOMAIN result.emotion_scores : result.emotion_scores[e].num = 0

\* C16: the emotion_scores analyze_text returns are all non-negative, and
\* either they are the shares |accumulated| / sum of |accumulated| and so sum
\* to 1, or they are all zero or empty, and then the confidence is 0 and the
\* dominant emotion is neutral or unknown.
C16_ScoresNormalised ==
    Returned("analyze_text") =>
        /\ "raised" \notin DOMAIN TextResult
        /\ \A e \in DOMAIN TextResult.emotion_scores :
              /\ TextResult.emotion_scores[e].num >= 0
              /\ TextResult.emotion_scores[e].den > 0
        /\ \/ SharesOfTotal(analysis[1].text, TextResult)
           \/ /\ NoSignal(TextResult)
              /\ TextResult.confidence.num = 0
              /\ TextResult.dominant_emotion \in {"neutral", "unknown"}

\* a text whose matches are all negated is scored: two categories share the total
C16_Witness ==
    /\ Returned("analyze_text")
    /\ analysis[1].text = <<"really", "am_gloomy">>
    /\ Accumulated(default_patterns.emotions[2].keywords,
                   Lower(Chars(analysis[1].text))) < 0
    /\ TextResult.emotion_scores["sadness"] = [num |-> 750, den |-> 1500]
    /\ TextResult.emotion_scores["gloomy"] = [num |-> 750, den |-> 1500]

\* the matches of a text cancel: every score is zero though a keyword was found
C16_CancelledWitness ==
    /\ Returned("analyze_text")
    /\ "keywords" \in DOMAIN TextResult
    /\ TextResult.keywords # {}
    /\ NoSignal(TextResult)
    /\ TextResult.dominant_emotion = "neutral"

\* C17: for a text of fewer than 3 characters, the empty text among them,
\* analyze_text returns dominant emotion and category "unknown", confidence
\* 0.0 and an empty score mapping, and does not raise.
C17_ShortTextIsUnknown ==
    (Returned("analyze_text") /\ TextLen(analysis[1].text) < 3) =>
        TextResult = [dominant_emotion |-> "unknown", emotion_category |-> "unknown",
                      confidence |-> Zero, emotion_scores |-> <<>>]

\* a text of two characters was analysed
C17_Witness ==
    /\ Returned("analyze_text")
    /\ TextLen(analysis[1].text) = 2
    /\ TextResult.emotion_category = "unknown"

\* the result of the analyze_conversation call that returned
ConversationResult == analysis[1].result

\* the trend the thresholds give for the exact least-squares slope
TrendOfSlope(y) ==
    IF Len(y) < 3 THEN "stable"
    ELSE IF 10 * Sxy(y) > Sxx(y) THEN "improving"
    ELSE IF 10 * Sxy(y) < -Sxx(y) THEN "worsening"
    ELSE "stable"

TrendAwayFromTenth ==
    (Returned("analyze_conversation") /\ analysis[1].rounding = "exact") =>
        ConversationResult.emotion_trend
            = TrendOfSlope(TurnValues(analysis[1].conversation_history))

\* four analysed turns whose slope is exactly 0.1 are reported as improving
TrendAtTenth ==
    /\ Returned("analyze_conversation")
    /\ TurnValues(analysis[1].conversation_history) = <<0, 0, 1, 0>>
    /\ ConversationResult.emotion_trend = "improving"


----------------------------------------------------------------------------
(* The claims about the lexicon files *)

\* the file is absent, unreadable or lacks a required top-level key
Unusable(file, required) ==
    file.state # "present" \/ ~(required \subseteq file.keys)

\* C19: when the lexicon file of the emotion scorer or of the phishing scorer
\* is absent, unreadable or lacks a required top-level key, the scorer runs
\* on the built-in lexicon, and every later analyze_text and
\* detect_with_patterns call completes without an error.
C19_FallbackToDefaultLexicon ==
    lexicons # <<>> =>
        /\ Unusable(lexicons.found.emotion, EmotionKeys) =>
              /\ lexicons.emotion = DefaultEmotionLexicon
              /\ Returned("analyze_text") => "raised" \notin DOMAIN analysis[1].result
        /\ Unusable(lexicons.found.phishing, PhishingKeys) =>
              /\ lexicons.phishing = [keys |-> PhishingKeys]
              /\ Returned("detect_with_patterns") =>
                    "raised" \notin DOMAIN analysis[1].result

\* the phishing scorer does fall back, and so does the emotion scorer where
\* the file is absent or unreadable
FallbackWithoutFile ==
    lexicons # <<>> =>
        /\ lexicons.found.emotion.state # "present" =>
              /\ lexicons.emotion = DefaultEmotionLexicon
              /\ Returned("analyze_text") => "raised" \notin DOMAIN analysis[1].result
        /\ Unusable(lexicons.found.phishing, PhishingKeys) =>
              /\ lexicons.phishing = [keys |-> PhishingKeys]
              /\ Returned("detect_with_patterns") =>
                    "raised" \notin DOMAIN analysis[1].result

\* an emotion lexicon file without negation_words is kept, and analyze_text raises
IncompleteLexiconRaises ==
    /\ lexicons # <<>>
    /\ lexicons.found.emotion = FileWith(EmotionKeys \ {"negation_words"})
    /\ Returned("analyze_text")
    /\ analysis[1].result = [raised |-> "KeyError"]


----------------------------------------------------------------------------
(* The claims about the day logs *)

\* the newest record load_emotion_logs reads back
LastRead == 
    LET logs == load_emotion_logs(emotionFiles, now, EmotionChangeWindowDays)
    IN  logs[Len(logs)]

\* the alert just saved, as today's alert file gives it back
AlertRead == alertFiles[DateOf(now)].alerts[Len(alertFiles[DateOf(now)].alerts)]

AlertSaved ==
    /\ lastCall = "check_emotion_change_alert"
    /\ returned # <<>>
    /\ alertFiles[DateOf(now)].ok
    /\ alertFiles[DateOf(now)].alerts # <<>>

\* the fields log_emotion puts into the entry are read back as they were
LoggedFieldsReadBack ==
    analysis # <<>> =>
        /\ LastRead.text = analysis[1].text
        /\ LastRead.ts = now
        /\ LastRead.dominant_emotion = analysis[1].result.dominant_emotion
        /\ LastRead.cat = analysis[1].result.emotion_category
        /\ LastRead.confidence = analysis[1].result.confidence
        /\ LastRead.keywords = Get(analysis[1].result, "keywords", {})

\* C20: an Alert saved by _save_alert and an EmotionRecord logged by
\* log_emotion (the analyze_text result, its emotion_scores included) are
\* read back from the day file equal to the original in all fields.
C20_RoundTrip ==
    /\ AlertSaved => AlertRead = returned[1]
    /\ analysis # <<>> =>
          /\ LoggedFieldsReadBack
          /\ "emotion_scores" \in DOMAIN LastRead
          /\ LastRead.emotion_scores = analysis[1].result.emotion_scores

\* an alert was saved and is read back as it was returned
AlertReadBack == AlertSaved => AlertRead = returned[1]

AlertReadBackWitness == AlertSaved /\ AlertRead = returned[1]

\* a scored utterance was logged: the record read back has no emotion_scores
ScoresNotLogged ==
    /\ analysis # <<>>
    /\ analysis[1].result.emotion_scores # <<>>
    /\ LastRead.text = analysis[1].text
    /\ "emotion_scores" \notin DOMAIN LastRead

----------------------------------------------------------------------------
(* The claims about the alert log *)

\* the alerts readable in the day file of date d
AlertsOn(files, d) == IF files[d].ok THEN files[d].alerts ELSE <<>>

\* every alert readable in the day files before the step is found unchanged,
\* at the same place of the same file, after it
AlertsKept ==
    \A d \in Dates : \A i \in 1..Len(AlertsOn(alertFiles, d)) :
        /\ i <= Len(AlertsOn(alertFiles', d))
        /\ AlertsOn(alertFiles', d)[i] = AlertsOn(alertFiles, d)[i]

\* C22: the alert log is append-only: over any sequence of AlertManager
\* operations no step removes or rewrites an alert that was persisted.
C22_AlertLogAppendOnly == [][AlertsKept]_vars

\* a step that leaves every day file readable keeps the alerts
AppendOnlyUnlessWriteFails ==
    [][(\A d \in Dates : alertFiles'[d].ok) => AlertsKept]_vars

\* the alert is an entry of the day file of its date
Persisted(files, alert) ==
    \E i \in 1..Len(AlertsOn(files, DateOf(alert.ts))) :
        AlertsOn(files, DateOf(alert.ts))[i] = alert

\* C25: every alert check_all_alerts returns has been persisted in the alert
\* log; an alert whose save failed is not handed back as if it was recorded.
C25_ReturnedAlertsArePersisted ==
    (pc = "idle" /\ lastCall = "check_all_alerts") =>
        \A i \in 1..Len(returned) : Persisted(alertFiles, returned[i])

\* check_all_alerts returned an alert that is in no day file
ReturnedButNotPersisted ==
    /\ pc = "idle"
    /\ lastCall = "check_all_alerts"
    /\ \E i \in 1..Len(returned) :
          /\ returned[i].ts = now
          /\ ~Persisted(alertFiles, returned[i])

\* the two records an emotion_change alert was raised for
FlipOf(alert) == <<alert.details.from_timestamp, alert.details.to_timestamp>>

\* C28: one polarity flip produces at most one emotion_change alert: the same
\* pair of two most recent records never causes a second alert.
C28_OneAlertPerFlip ==
    \A a \in PersistedAlerts(alertFiles, "emotion_change") :
        \A b \in PersistedAlerts(alertFiles, "emotion_change") :
            FlipOf(a) = FlipOf(b) => a = b

\* two alerts of the same flip, the second raised once the cooldown was over
SecondAlertAfterCooldown ==
    \E a \in PersistedAlerts(alertFiles, "emotion_change") :
        \E b \in PersistedAlerts(alertFiles, "emotion_change") :
            /\ FlipOf(a) = FlipOf(b)
            /\ DaysBetween(b.ts, a.ts) >= EmotionChangeCooldownDays

----------------------------------------------------------------------------
(* The claims about the daily statistics *)

\* the day files with the dates that have no counted record left empty
WithoutUncounted(files) ==
    [d \in Dates |-> IF CountIn(files[d], CountedCategories) = 0 THEN <<>> ELSE files[d]]

\* the statistics detect_depression_risk computed in its last call
DailyStats ==
    calculate_daily_emotions(load_emotion_logs(emotionFiles, now, risk[1].days))

\* C24: calculate_daily_emotions yields an entry only for the dates with at
\* least one counted record, the three ratios of an entry sum to 1, and a
\* date with no counted sample is neither a bucket nor a low-negative day
\* for detect_depression_risk.
C24_ZeroSampleDatesExcluded ==
    risk # <<>> =>
        /\ DOMAIN DailyStats = Buckets(emotionFiles, now, risk[1].days)
        /\ \A d \in DOMAIN DailyStats :
              /\ DailyStats[d].total > 0
              /\ DailyStats[d].positive + DailyStats[d].negative
                    + DailyStats[d].neutral = DailyStats[d].total
        /\ risk[1].result =
              detect_depression_risk(WithoutUncounted(emotionFiles), now,
                                     risk[1].days, risk[1].threshold)

\* C24 witness: among the dates of the window one holds unknown records
\* only; it has no entry, and the risk is true from the seven other dates.
C24_Witness ==
    /\ DefaultRiskCall
    /\ risk[1].result
    /\ \E d \in Dates : emotionFiles[d] # <<>> /\ d \notin DOMAIN DailyStats

\* a date with a counted and an uncounted record: its total is 1
MixedDateCounted ==
    /\ DefaultRiskCall
    /\ \E d \in DOMAIN DailyStats :
          Len(emotionFiles[d]) > DailyStats[d].total /\ DailyStats[d].total = 1

----------------------------------------------------------------------------
(* The claim about matched keywords *)

LexiconEmotions ==
    {default_patterns.emotions[n].emotion : n \in 1..Len(default_patterns.emotions)}

\* the text analysed is long enough and holds a match of a lexicon keyword
KeywordMatched ==
    /\ Returned("analyze_text")
    /\ ~TooShort(analysis[1].text)
    /\ FoundKeywords(Lower(Chars(analysis[1].text))) # {}

\* the result is a signal: shares that sum to 1 and a dominant lexicon category
Signal ==
    /\ "raised" \notin DOMAIN TextResult
    /\ ~NoSignal(TextResult)
    /\ SharesOfTotal(analysis[1].text, TextResult)
    /\ TextResult.dominant_emotion \in LexiconEmotions

\* the accumulated score of every category is zero
AllCancelled ==
    \A n \in 1..Len(default_patterns.emotions) :
        Accumulated(default_patterns.emotions[n].keywords,
                    Lower(Chars(analysis[1].text))) = 0

\* C29: a text of at least 3 characters with a match of a lexicon keyword
\* gives a signal: scores not all zero that sum to 1 and a dominant emotion
\* of the lexicon, whatever mix of plain, intensified and negated matches.
C29_MatchGivesSignal == KeywordMatched => Signal

\* a matched text gives a signal unless the scores of its matches cancel
SignalUnlessCancelled == (KeywordMatched /\ ~AllCancelled) => Signal

\* a plain match and two negated matches of one category: +1 - 0.5 - 0.5
PlainAndNegatedCancel ==
    /\ KeywordMatched
    /\ AllCancelled
    /\ TextResult.dominant_emotion = "neutral"
    /\ TextResult.emotion_category = "neutral"
    /\ TextResult.confidence = Zero
    /\ NoSignal(TextResult)

----------------------------------------------------------------------------
(* The claim about the weekly report *)

\* the counts of the dates of the report window that have a counted record
WindowStats ==
    [d \in Buckets(emotionFiles, now, ReportWindowDays) |->
        [positive |-> CountIn(emotionFiles[d], {"positive"}),
         negative |-> CountIn(emotionFiles[d], {"negative"}),
         neutral  |-> CountIn(emotionFiles[d], {"neutral"}),
         total    |-> CountIn(emotionFiles[d], CountedCategories)]]

SameRatio(a, b) == a.num * b.den = b.num * a.den

\* the ratio is the unweighted mean of the daily ratios of the category
IsMeanOfDaily(ratio, cat) == SameRatio(ratio, MeanRatio(WindowStats, cat))

\* C23: generate_weekly_report returns a report whose overall ratios are the
\* unweighted means of the daily ratios over the dates with data, whose
\* dominant emotion is the category of the largest overall ratio, whose
\* top_keywords are the 10 most frequent keywords, and whose depression_risk
\* is detect_depression_risk().
C23_WeeklyReport ==
    report # <<>> =>
        /\ "raised" \notin DOMAIN report[1]
        /\ IsMeanOfDaily(report[1].overall_stats.positive_ratio, "positive")
        /\ IsMeanOfDaily(report[1].overall_stats.negative_ratio, "negative")
        /\ IsMeanOfDaily(report[1].overall_stats.neutral_ratio, "neutral")
        /\ \A cat \in CountedCategories :
              ~RatioLess(MeanRatio(WindowStats, report[1].overall_stats.dominant_emotion),
                         MeanRatio(WindowStats, cat))
        /\ \A k \in DOMAIN report[1].top_keywords :
              report[1].top_keywords[k] =
                  Cardinality({r \in RecordsOf(emotionFiles, Dates) : k \in r.keywords})
        /\ Cardinality(DOMAIN report[1].top_keywords) <= TopKeywordCount
        /\ report[1].depression_risk =
              detect_depression_risk(emotionFiles, now, DepressionWindowDays,
                                     DepressionThresholdPct)

\* the report of a week with records on every date: the call raises
ReportRaises ==
    /\ report = <<[raised |-> "KeyError"]>>
    /\ Cardinality(DOMAIN WindowStats) = ReportWindowDays + 1

----------------------------------------------------------------------------
(* The claims about the text of the day files *)

\* a single JSON array of record objects
ListOfObjects(file) ==
    /\ file.head = "array"
    /\ file.lines = <<>>
    /\ \A i \in 1..Len(file.records) : IsObject(file.records[i])

LastCallSucceeded == threads # <<>> /\ threads[Len(threads)].result

\* _save_alert that reports success leaves a list with the alert at its end,
\* whether it found no file, a list or a file that does not parse
AlertSaveLeavesList ==
    \A found \in {NoFile, Unreadable, alertFiles[DateOf(now)]} :
        LET d == DateOf(now)
            saved == _save_alert([alertFiles EXCEPT ![d] = found],
                                 DepressionAlert(now), "saved")[d]
        IN  /\ saved.ok
            /\ saved.alerts # <<>>
            /\ saved.alerts[Len(saved.alerts)] = DepressionAlert(now)

\* C26: after a log_emotion or _save_alert call that reports success the day
\* file is a single JSON array of record objects, also when the file found
\* was corrupted; a corrupted day file is read as empty, without raising.
C26_ListOfObjectsKept ==
    /\ LastCallSucceeded => ListOfObjects(dayFile)
    /\ AlertSaveLeavesList
    /\ ~Parses(dayFile) => load_day_logs(dayFile) = [raised |-> "none", logs |-> <<>>]
    /\ _get_last_alert([alertFiles EXCEPT ![DateOf(now)] = Unreadable], now,
                       "depression") = <<>>

\* a day file that does not parse is read as empty
CorruptedReadAsEmpty ==
    ~Parses(dayFile) => load_day_logs(dayFile) = [raised |-> "none", logs |-> <<>>]

\* log_emotion met bytes that are not UTF-8, appended its entry and returned True
AppendedToUndecodable ==
    /\ Len(threads) = 1
    /\ threads[1].result
    /\ dayFile = [UndecodableText EXCEPT !.lines = <<threads[1].entry>>]

\* a later rewrite took a keyword line of the old array for an entry
StrayStringInArray ==
    /\ LastCallSucceeded
    /\ dayFile.head = "array"
    /\ dayFile.lines = <<>>
    /\ \E i \in 1..Len(dayFile.records) : ~IsObject(dayFile.records[i])
    /\ load_day_logs(dayFile).raised = "AttributeError"

\* the entries of the calls that returned True
Acknowledged == {threads[i].entry : i \in {j \in 1..Len(threads) : threads[j].result}}

\* C27: every record for which log_emotion returned True is in the result of
\* a later load_emotion_logs, the calls that took the fallback included.
C27_ReadYourWrites ==
    \A entry \in Acknowledged :
        /\ load_day_logs(dayFile).raised = "none"
        /\ \E i \in 1..Len(load_day_logs(dayFile).logs) :
              load_day_logs(dayFile).logs[i] = entry

\* as long as every call rewrote the file, each acknowledged record is read back
ReadBackWithoutFallback ==
    (\A i \in 1..Len(threads) : threads[i].result) /\ ListOfObjects(dayFile)
        /\ Len(dayFile.records) >= Len(threads)
        => \A entry \in Acknowledged :
              \E i \in 1..Len(load_day_logs(dayFile).logs) :
                  load_day_logs(dayFile).logs[i] = entry

\* a record appended after the array: acknowledged and not read back
AcknowledgedButUnread ==
    /\ dayFile.head = "array"
    /\ dayFile.lines # <<>>
    /\ Acknowledged # {}
    /\ load_day_logs(dayFile) = [raised |-> "none", logs |-> <<>>]

----------------------------------------------------------------------------
(* The claim about concurrent writers *)

BothReturned == \A i \in Callers : threads[i].pc = "done"

InFile(entry) == \E k \in 1..Len(dayFile.records) : dayFile.records[k] = entry

\* C21: when two log_emotion calls, or two _save_alert calls, run
\* concurrently against one day file, after both returned the file is a
\* valid JSON array with both new records and every record it held before.
C21_WritesSerialized ==
    BothReturned =>
        /\ ListOfObjects(dayFile)
        /\ InFile(EarlierOf(threads[1].call))
        /\ \A i \in Callers : InFile(threads[i].entry)

\* one call after the other: the file holds the three records
OneAfterTheOther ==
    /\ BothReturned
    /\ ListOfObjects(dayFile)
    /\ Len(dayFile.records) = 3
    /\ InFile(EarlierOf(threads[1].call))
    /\ \A i \in Callers : InFile(threads[i].entry)

\* both calls read before either wrote: the record of one of them is lost
LostUpdate ==
    /\ BothReturned
    /\ ListOfObjects(dayFile)
    /\ Len(dayFile.records) = 2
    /\ \E i \in Callers : ~InFile(threads[i].entry)

\* a call read the file another call had just emptied: the earlier record is lost
EarlierRecordLost ==
    /\ BothReturned
    /\ ListOfObjects(dayFile)
    /\ ~InFile(EarlierOf(threads[1].call))

\* a shorter list was written over a longer one: the file is no JSON
LeftGarbled ==
    /\ BothReturned
    /\ dayFile.head = "garbled"
    /\ threads[1].call = "_save_alert"

\* the file is never smaller than a call's own list when no other call
\* touched it: a call that ran alone keeps everything it read
AloneKeepsAll ==
    \A i \in Callers :
        (threads[i].pc = "done" /\ \A j \in Callers \ {i} : threads[j].pc = "start")
            => /\ ListOfObjects(dayFile)
               /\ InFile(EarlierOf(threads[i].call))
               /\ InFile(threads[i].entry)

----------------------------------------------------------------------------
(* The claims about the conversation history *)

\* the entries are in turn an utterance of the user and a reply
Alternates(history) ==
    /\ Len(history) % 2 = 0
    /\ \A i \in 1..Len(history) : (history[i].by = "user") <=> (i % 2 = 1)

\* C30: conversation_history strictly alternates user input and response:
\* after any sequence of process_message and reset_conversation calls its
\* length is even and every even index (counted from 0) holds a user utterance.
C30_HistoryAlternates == Alternates(chatHistory)

\* a call with empty or blank input leaves the history as it was
EmptyInputIgnored ==
    \A call \in ChatCalls : \A chain \in ChainOutcomes : \A check \in CheckOutcomes :
        IsEmptyInput(call.words)
            => process_message(chatHistory, call.words, lexicons.emotion,
                               call.phishing_result, chain, check) = chatHistory

\* the history alternates while the lexicon is complete and no alert check
\* was due yet
AlternatesWhileNothingRaised ==
    (lexicons.emotion = DefaultEmotionLexicon /\ Len(chatHistory) < AlertCheckEvery)
        => Alternates(chatHistory)

\* each of the three replies is appended after its utterance
EveryReplySeen ==
    \A kind \in {"warning", "final_response", "error_response"} :
        \E i \in 2..Len(chatHistory) :
            /\ chatHistory[i] = Response(kind)
            /\ chatHistory[i - 1].by = "user"

\* analyze_text raised: the utterance is in the history without a reply, and
\* the next utterance stands at an odd index
UtteranceWithoutReply ==
    \E i \in 1..(Len(chatHistory) - 1) :
        /\ chatHistory[i].by = "user"
        /\ chatHistory[i + 1].by = "user"
        /\ AnalysisRaises(lexicons.emotion, chatHistory[i].text)

\* the alert check raised: the reply and the error reply are both appended
TwoRepliesToOneUtterance ==
    /\ Len(chatHistory) = AlertCheckEvery + 1
    /\ chatHistory[AlertCheckEvery] = Response("final_response")
    /\ chatHistory[AlertCheckEvery + 1] = Response("error_response")
    /\ lexicons.emotion = DefaultEmotionLexicon

====
